---- MODULE Spec2Model ----
(***************************************************************************)
(* A model of the provisioning core of brie: the library cache with its    *)
(* "latest" symlink and DirGuard, the release providers, the freshness     *)
(* state file, the two-level locking of launch, and the per-prefix         *)
(* ledgers (.winetricks, .overrides).                                      *)
(*                                                                         *)
(* Strings whose bytes matter (file names, versions, ledger files) are     *)
(* sequences of one-character strings.                                     *)
(***************************************************************************)
EXTENDS Integers, Sequences, FiniteSets, TLC

\* Option::None of a version string (a version is never empty) and of a time
NoVersion == <<>>
NoTime == 0 - 1

\* ------------------------------------------------------------------------
\* Bounds of the model
\* ------------------------------------------------------------------------

\* number of concurrent launcher processes sharing libraries/
NumProcs == 2
\* number of launches started over a behaviour
MaxLaunches == 2
\* number of times the wall clock is advanced
MaxAdvances == 1
\* number of injected environment failures (HTTP, IO, kill) over a behaviour
MaxFaults == 1

\* ------------------------------------------------------------------------
\* Byte strings
\* ------------------------------------------------------------------------

\* The byte value of the characters the model uses (ASCII).
Code(c) ==
    CASE c = "\n" -> 10 [] c = " " -> 32 [] c = "-" -> 45 [] c = "." -> 46
      [] c = "0" -> 48 [] c = "1" -> 49 [] c = "2" -> 50 [] c = "3" -> 51
      [] c = "4" -> 52 [] c = "6" -> 54 [] c = "8" -> 56 [] c = "9" -> 57
      [] c = "X" -> 88 [] c = "a" -> 97 [] c = "b" -> 98 [] c = "c" -> 99
      [] c = "d" -> 100 [] c = "e" -> 101 [] c = "g" -> 103 [] c = "i" -> 105
      [] c = "k" -> 107 [] c = "l" -> 108 [] c = "n" -> 110 [] c = "o" -> 111
      [] c = "p" -> 112 [] c = "r" -> 114 [] c = "s" -> 115 [] c = "t" -> 116
      [] c = "v" -> 118 [] c = "x" -> 120 [] c = "y" -> 121 [] c = "z" -> 122

\* str::cmp: byte-wise lexicographic order, a < b
RECURSIVE StrLess(_, _)
StrLess(a, b) ==
    IF b = <<>> THEN FALSE
    ELSE IF a = <<>> THEN TRUE
    ELSE IF Code(Head(a)) # Code(Head(b)) THEN Code(Head(a)) < Code(Head(b))
    ELSE StrLess(Tail(a), Tail(b))

\* str::starts_with
StartsWith(s, p) == Len(p) <= Len(s) /\ SubSeq(s, 1, Len(p)) = p

\* str::ends_with
EndsWith(s, p) == Len(p) <= Len(s) /\ SubSeq(s, Len(s) - Len(p) + 1, Len(s)) = p

\* str::contains
Contains(s, p) ==
    \E i \in 1..(Len(s) + 1) :
        i + Len(p) - 1 <= Len(s) /\ SubSeq(s, i, i + Len(p) - 1) = p

\* ------------------------------------------------------------------------
\* Release provider of Library::DxvkGplAsync (GitLab tree listing)
\* ------------------------------------------------------------------------

\* GitRepo::new("Ph42oN", "dxvk-gplasync").repo
RepoName == <<"d", "x", "v", "k", "-", "g", "p", "l", "a", "s", "y", "n", "c">>
\* filename_version("dxvk-gplasync-", ".tar.gz")
NamePrefix == RepoName \o <<"-">>
NameSuffix == <<".", "t", "a", "r", ".", "g", "z">>

\* The versions the upstream repository may publish, and the tags a unit may pin.
V11 == <<"1", ".", "1">>
V2 == <<"2">>
T1 == <<"1">>
Versions == {V11, V2}
Tags == {T1, V11}
\* every name a directory under libraries/<name>/ can have in the model
DirNames == Versions \cup Tags

\* the file the upstream tree holds for a version
FileName(v) == NamePrefix \o v \o NameSuffix

\* ReleaseVersion
Latest == [kind |-> "Latest"]
Tag(t) == [kind |-> "Tag", tag |-> t]
Selectors == {Latest} \cup {Tag(t) : t \in Tags}

\* filename_version: strip_prefix then strip_suffix, NoVersion when either fails
filename_version(name) ==
    IF StartsWith(name, NamePrefix)
       /\ EndsWith(SubSeq(name, Len(NamePrefix) + 1, Len(name)), NameSuffix)
    THEN SubSeq(name, Len(NamePrefix) + 1, Len(name) - Len(NameSuffix))
    ELSE NoVersion

\* releases.sort_by(name); next_back(): the greatest name of the listing
LastByName(listing) ==
    CHOOSE i \in 1..Len(listing) :
        \A j \in 1..Len(listing) : ~StrLess(listing[i], listing[j])

\* releases.into_iter().find(|r| r.name.contains(sub)): the first match
FindContaining(listing, sub) ==
    LET hits == {i \in 1..Len(listing) : Contains(listing[i], sub)}
    IN  IF hits = {} THEN 0 ELSE CHOOSE i \in hits : \A j \in hits : i <= j

\* downloader::Release {version, filename}; NoRelease stands for Err(_)
NoRelease == [version |-> NoVersion, filename |-> <<>>]

\* Client::tree_file over an answered listing: the resolved release, or
\* NoRelease for Error::NoMatchingAsset.
tree_file(listing, version) ==
    LET i == IF version.kind = "Latest"
             THEN (IF Len(listing) = 0 THEN 0 ELSE LastByName(listing))
             ELSE FindContaining(listing, RepoName \o <<"-">> \o version.tag \o <<".">>)
    IN  IF i = 0 \/ filename_version(listing[i]) = NoVersion
        THEN NoRelease
        ELSE [version |-> filename_version(listing[i]), filename |-> listing[i]]

\* The listings the upstream tree can answer with: the published files, in
\* any order.
Listings ==
    {<<>>} \cup {<<FileName(v)>> : v \in Versions}
    \cup {<<FileName(vw[1]), FileName(vw[2])>> :
              vw \in {x \in Versions \X Versions : x[1] # x[2]}}

\* Downloadable::get_meta of Library::DxvkGplAsync, tabulated over the
\* listings and selectors of the model
get_meta_table == [l \in Listings |-> [v \in Selectors |-> tree_file(l, v)]]
get_meta(listing, version) == get_meta_table[listing][version]

\* ------------------------------------------------------------------------
\* Cache store: libraries/<name>/ of one library
\* ------------------------------------------------------------------------

\* Duration::from_secs(86400)
FreshnessWindow == 86400

\* A cache is [dirs, latest]: dirs[n] is the state of the directory
\* libraries/<name>/<n> ("absent", "partial": created but not completely
\* unpacked and flattened, "full"), latest the target of the symlink
\* libraries/<name>/latest (NoVersion when there is no such link).
EmptyCache == [dirs |-> [n \in DirNames |-> "absent"], latest |-> NoVersion]

\* version_dir = library_dir.join(version.to_str()), with symlinks followed
Resolve(c, version) == IF version.kind = "Latest" THEN c.latest ELSE version.tag

\* version_dir.exists(): follows the symlink, a dangling link does not exist
Exists(c, version) ==
    Resolve(c, version) # NoVersion /\ c.dirs[Resolve(c, version)] # "absent"

\* a dispatch on what the file name contains
DecoderByContains(filename) ==
    IF Contains(filename, <<".", "t", "a", "r", ".", "g", "z">>) THEN "gz"
    ELSE IF Contains(filename, <<".", "t", "a", "r", ".", "x", "z">>) THEN "xz"
    ELSE IF Contains(filename, <<".", "t", "a", "r", ".", "z", "s", "t">>) THEN "zst"
    ELSE "UnknownFormat"

\* Downloadable::download dispatch on release.filename
Decoder(filename) ==
    IF EndsWith(filename, <<".", "t", "a", "r", ".", "g", "z">>) THEN "gz"
    ELSE IF EndsWith(filename, <<".", "t", "a", "r", ".", "x", "z">>) THEN "xz"
    ELSE IF EndsWith(filename, <<".", "t", "a", "r", ".", "z", "s", "t">>) THEN "zst"
    ELSE "UnknownFormat"

\* The points where the environment can make download_library fail, or where
\* the process can be killed (no destructor runs).
DownloadFaults ==
    {"mkdir", "http", "unpack", "empty", "flatten", "rm", "symlink", "kill"}

\* DirGuard::drop: remove_dir_all(path) unless success was set
DirGuardDrop(dirs, path, success) ==
    IF success THEN dirs ELSE [dirs EXCEPT ![path] = "absent"]

\* download_library(library, version, release, library_dir): the cache it
\* leaves and its result, for the failure point `fail` ("none": no failure).
\*   created: create_dir_all(dest) succeeded, so the guard was installed
\*   fetched: the asset was requested over HTTP
\*   killed:  the process died inside the call
download_library(c, version, release, fail) ==
    LET dest == release.version
        made == [c.dirs EXCEPT ![dest] = IF @ = "full" THEN "full" ELSE "partial"]
        unknown == Decoder(release.filename) = "UnknownFormat"
    IN  IF fail = "mkdir"
        THEN [dirs |-> c.dirs, latest |-> c.latest, ok |-> FALSE,
              created |-> FALSE, fetched |-> FALSE, killed |-> FALSE]
        ELSE IF fail = "kill"
        THEN \* killed while unpacking: whatever was written stays
             [dirs |-> [made EXCEPT ![dest] = "partial"], latest |-> c.latest,
              ok |-> FALSE, created |-> TRUE, fetched |-> TRUE, killed |-> TRUE]
        ELSE IF fail \in {"http", "unpack", "empty", "flatten"} \/ unknown
        THEN [dirs |-> DirGuardDrop(made, dest, FALSE), latest |-> c.latest,
              ok |-> FALSE, created |-> TRUE, fetched |-> TRUE, killed |-> FALSE]
        ELSE IF version.kind = "Latest" /\ fail = "rm" /\ c.latest # NoVersion
        THEN \* remove_file failed (ignored), so symlink fails on the old link
             [dirs |-> DirGuardDrop(made, dest, FALSE), latest |-> c.latest,
              ok |-> FALSE, created |-> TRUE, fetched |-> TRUE, killed |-> FALSE]
        ELSE IF version.kind = "Latest" /\ fail = "symlink"
        THEN \* remove_file removed the old link, symlink failed
             [dirs |-> DirGuardDrop(made, dest, FALSE), latest |-> NoVersion,
              ok |-> FALSE, created |-> TRUE, fetched |-> TRUE, killed |-> FALSE]
        ELSE [dirs |-> DirGuardDrop([made EXCEPT ![dest] = "full"], dest, TRUE),
              latest |-> IF version.kind = "Latest" THEN dest ELSE c.latest,
              ok |-> TRUE, created |-> TRUE, fetched |-> TRUE, killed |-> FALSE]

\* time_since_update.is_none_or(|d| d > Duration::from_secs(86400))
IsDue(version, tsu) ==
    version.kind = "Latest" /\ (tsu = NoTime \/ tsu > FreshnessWindow)

\* State::untouched(version_dir) where State::new(version_dir, true) stands
StillLatestUntouched == FALSE

\* State::new(version_dir, true) where State::untouched(version_dir) stands
CheckFailedUpdated == TRUE

\* State::untouched(version_dir): updated = false
UntouchedUpdated == FALSE

\* State::new(version_dir, true): the "latest" link already is the release
StillLatestUpdated == TRUE

\* State::new(version_dir, true): the entry exists (checked or not, replaced
\* or not)
ExistingUpdated == TRUE

\* State::new(version_dir, matches!(version, ReleaseVersion::Latest))
InstalledUpdated(version) == version.kind = "Latest"

\* The result of ensure_library_exists and the cache it leaves. ok: Ok(State);
\* updated: State.updated; branch names the path taken through the function;
\* queried: get_meta was called; resolved: the release version it answered.
EnsureResult(c, br, ok, updated, queried, rel, d) ==
    [dirs |-> c.dirs, latest |-> c.latest, branch |-> br, ok |-> ok,
     updated |-> updated, queried |-> queried, resolved |-> rel,
     created |-> d.created, fetched |-> d.fetched, dlok |-> d.ok, killed |-> d.killed]

NoDownload == [created |-> FALSE, fetched |-> FALSE, ok |-> FALSE, killed |-> FALSE]

\* ensure_library_exists(library, library_dir, version, time_since_update):
\* `meta` is what get_meta answers (NoRelease: an error), `fail` what happens
\* in download_library.
ensure_library_exists(c, version, tsu, meta, fail) ==
    IF Exists(c, version)
    THEN IF IsDue(version, tsu)
         THEN IF meta = NoRelease
              THEN \* State::untouched(version_dir)
                   EnsureResult(c, "check_failed", TRUE, UntouchedUpdated, TRUE,
                                NoVersion, NoDownload)
              ELSE IF c.latest = meta.version
              THEN EnsureResult(c, "same", TRUE, StillLatestUpdated, TRUE,
                                meta.version, NoDownload)
              ELSE LET d == download_library(c, version, meta, fail)
                   IN  \* if let Err(err) = download_library(..) { error!(..) }
                       EnsureResult(d, "update", TRUE, ExistingUpdated, TRUE,
                                    meta.version, d)
         ELSE EnsureResult(c, "cached", TRUE, ExistingUpdated, FALSE, NoVersion, NoDownload)
    ELSE IF meta = NoRelease
         THEN EnsureResult(c, "meta_failed", FALSE, FALSE, TRUE, NoVersion, NoDownload)
         ELSE LET d == download_library(c, version, meta, fail)
              IN  EnsureResult(d, "install", d.ok, InstalledUpdated(version), TRUE,
                               meta.version, d)

\* ensure_winetricks_exists: `st` is the state of libraries/.bin/winetricks
\* ("absent", "partial": created but not completely written, "full").
\*   http: a request was made;  ok: Ok(())
ensure_winetricks_exists(st, fail) ==
    IF st # "absent" THEN [file |-> st, ok |-> TRUE, http |-> FALSE]
    ELSE IF fail = "http" THEN [file |-> "absent", ok |-> FALSE, http |-> TRUE]
    ELSE IF fail = "copy" THEN [file |-> "partial", ok |-> FALSE, http |-> TRUE]
    ELSE [file |-> "full", ok |-> TRUE, http |-> TRUE]

\* ensure_cabextract_exists: as above for libraries/.bin/cabextract, the file
\* being one entry of the downloaded package; "noentry": the package has no
\* entry named cabextract, the loop ends without creating the file
ensure_cabextract_exists(st, fail) ==
    IF st # "absent" THEN [file |-> st, ok |-> TRUE, http |-> FALSE]
    ELSE IF fail = "http" THEN [file |-> "absent", ok |-> FALSE, http |-> TRUE]
    ELSE IF fail = "copy" THEN [file |-> "partial", ok |-> FALSE, http |-> TRUE]
    ELSE IF fail = "noentry" THEN [file |-> "absent", ok |-> TRUE, http |-> TRUE]
    ELSE [file |-> "full", ok |-> TRUE, http |-> TRUE]

ToolFaults == {"http", "copy"}
CabFaults == ToolFaults \cup {"noentry"}

\* ------------------------------------------------------------------------
\* State store: libraries/.state
\* ------------------------------------------------------------------------

\* State::default()
EmptyState == [wine |-> NoTime, lib |-> NoTime]

\* t.elapsed().ok(): None when the clock is behind the timestamp
Elapsed(t, now) == IF t = NoTime \/ now < t THEN NoTime ELSE now - t

\* ------------------------------------------------------------------------
\* The launch pipeline
\* ------------------------------------------------------------------------

VARIABLES
    tree,       \* the upstream listing: the file names of the GitLab tree
    cache,      \* libraries/<name>/ of the library
    bin,        \* libraries/.bin/: the state of winetricks and cabextract
    stateFile,  \* the content of libraries/.state, as state::read parses it
    clock,      \* SystemTime::now(), in seconds
    cacheLock,  \* holder of libraries/.brie.lock, 0 when free
    pc,         \* per process: where its launch is
    unit,       \* per process: the version selector of the library in its Unit
    st,         \* per process: the State it read at the start of the fan-out
    res,        \* per process: the results of its four fan-out tasks
    lastFan,    \* history: the unit of the latest fan-out if all its tasks succeeded
    launches,   \* number of launches started
    advances,   \* number of clock advances
    faults,     \* number of failures injected
    winetricksFile, \* the bytes of <prefix>/.winetricks (empty: no such file)
    overridesFile,  \* the bytes of <prefix>/.overrides (empty: no such file)
    overridesOpens, \* how many times the last install_libraries opened
                    \* .overrides for writing
    prefixPc,       \* where the launch that holds the prefix lock is
    prefixUnit,     \* its Unit: the winetricks verbs and the libraries
    requested,      \* history: the verbs of the winetricks steps that returned Ok
    executed,       \* history: per verb, how often `winetricks -q <verb>` ran
    lastInstalled,  \* history: the libraries of the latest install_libraries
                    \* on the prefix if it returned Ok
    regEdits,       \* history: the overrides the latest install_libraries added
                    \* to the registry
    runs,           \* number of launches started on the prefix
    prefixDir,      \* the wine prefix directory: "absent" or "exists"
    userLinks,      \* whether an entry of <prefix>/drive_c/users/*/* is a symlink
    prefixLock,     \* holder of <prefix>/.brie.lock, 0 when free
    log,            \* history, per process: the steps its launch ran after
                    \* the state write, each with its outcome
    err,            \* history, per process: the Error its launch returned
    cmd,            \* history, per process: the cd and the command of its
                    \* Unit, and the directory the command was spawned in
    mode,           \* which operation the inputs below were drawn for
    dos,            \* <prefix>/dosdevices: per drive "absent" or the path the
                    \* symlink `<drive>:` points to
    host,           \* the paths that exist on the host
    mntMap,         \* the mounts mapping of the latest mounts step
    mntOk,          \* the result of the latest mounts step
    cfgUnit,        \* the unit of the configuration: its key, its name and
                    \* its prefix field
    unitPrefix,     \* the prefix of the Unit handed to launch
    dlIn,           \* a release handed to download_library and the state of
                    \* its destination directory
    dlOut,          \* the decoder chosen for it and the result of the download
    jf,             \* join!: the closures, each in an Option
    jr,             \* join!: the result slots
    jpc,            \* join!: where each element of the array is
    jcalls,         \* how many times each closure has been called
    jret,           \* what join! returned
    jlock,          \* whether the caller of join! holds the cache lock
    jdone,          \* history: the closures in the order in which they returned
    jerr,           \* what launch made of the results of join!
    fanUnit,        \* the runtime and the libraries of the Unit of a fan-out
    written,        \* the paths each task of that fan-out has written
    ovIn,           \* a .overrides file found in a prefix, and the libraries
    ovOut,          \* what install_libraries recorded on reading it
    envIn,          \* the WINEDLLPATH of a Unit's env and the Unit's libraries
    envOut,         \* the WINEDLLPATH of the Runner built from them
    rtIn,           \* a runtime, what its directory holds, and the prefix
    rtOut,          \* how far the launch got with it: steps and error
    fresh           \* a cache entry over repeated launches: clock, state file,
                    \* cache, and what the last launch did

cacheVars == <<tree, cache, bin, stateFile, clock, cacheLock, pc, unit, st, res,
               lastFan, launches, advances, faults>>

prefixVars == <<winetricksFile, overridesFile, overridesOpens, prefixPc, prefixUnit,
                requested, executed, lastInstalled, regEdits, runs>>

runVars == <<prefixDir, userLinks, prefixLock, log, err, cmd>>

mntVars == <<dos, host, mntMap, mntOk>>
cfgVars == <<cfgUnit, unitPrefix>>
dlVars == <<dlIn, dlOut>>
joinVars == <<jf, jr, jpc, jcalls, jret, jlock, jdone, jerr>>
fanVars == <<fanUnit, written>>
ovVars == <<ovIn, ovOut>>
envVars == <<envIn, envOut>>
rtVars == <<rtIn, rtOut>>
frVars == <<fresh>>
fnVars == <<mode, mntVars, cfgVars, dlVars, joinVars, fanVars, ovVars, envVars, rtVars,
    frVars>>

\* what an operation on one group of inputs leaves alone
notMnt == <<cacheVars, prefixVars, runVars, cfgVars, dlVars, joinVars, fanVars, ovVars,
    envVars, rtVars, frVars>>
notCfg == <<cacheVars, prefixVars, runVars, mntVars, dlVars, joinVars, fanVars, ovVars,
    envVars, rtVars, frVars>>
notDl == <<cacheVars, prefixVars, runVars, mntVars, cfgVars, joinVars, fanVars, ovVars,
    envVars, rtVars, frVars>>
notJoin == <<cacheVars, prefixVars, runVars, mntVars, cfgVars, dlVars, fanVars, ovVars,
    envVars, rtVars, frVars>>
notFan == <<cacheVars, prefixVars, runVars, mntVars, cfgVars, dlVars, joinVars, ovVars,
    envVars, rtVars, frVars>>
notOv == <<cacheVars, prefixVars, runVars, mntVars, cfgVars, dlVars, joinVars, fanVars,
    envVars, rtVars, frVars>>
notEnv == <<cacheVars, prefixVars, runVars, mntVars, cfgVars, dlVars, joinVars, fanVars,
    ovVars, rtVars, frVars>>
notRt == <<cacheVars, prefixVars, runVars, mntVars, cfgVars, dlVars, joinVars, fanVars,
    ovVars, envVars, frVars>>
notFr == <<cacheVars, prefixVars, runVars, mntVars, cfgVars, dlVars, joinVars, fanVars,
    ovVars, envVars, rtVars>>

vars == <<cacheVars, prefixVars, runVars, fnVars>>

Procs == 1..NumProcs

\* winetricks verbs a Unit may list
Corefonts == <<"c", "o", "r", "e", "f", "o", "n", "t", "s">>
Vcrun6 == <<"v", "c", "r", "u", "n", "6">>
Verbs == {Corefonts, Vcrun6}

\* the command of a launch that has not come to its command yet
NoCmd == [set |-> FALSE, cd |-> [some |-> FALSE, v |-> <<>>], empty |-> TRUE,
          cwd |-> <<>>]

\* no library set: install_libraries has not returned Ok on the prefix
NoLibraries == {"None"}

NoUnit == [kind |-> "None"]

NoResult ==
    [wine |-> FALSE, winetricks |-> FALSE, cabextract |-> FALSE, toolHttp |-> FALSE,
     branch |-> "none", ok |-> FALSE, updated |-> FALSE, queried |-> FALSE,
     resolved |-> NoVersion, created |-> FALSE, fetched |-> FALSE, dlok |-> FALSE]

Init ==
    /\ tree = <<FileName(V11)>>
    /\ cache = EmptyCache
    /\ bin = [winetricks |-> "absent", cabextract |-> "absent"]
    /\ stateFile = EmptyState
    /\ clock = 0
    /\ cacheLock = 0
    /\ pc = [p \in Procs |-> "idle"]
    /\ unit = [p \in Procs |-> NoUnit]
    /\ st = [p \in Procs |-> EmptyState]
    /\ res = [p \in Procs |-> NoResult]
    /\ lastFan = NoUnit
    /\ launches = 0
    /\ advances = 0
    /\ faults = 0
    /\ winetricksFile = <<>>
    /\ overridesFile = <<>>
    /\ overridesOpens = 0
    /\ prefixPc = "idle"
    /\ prefixUnit = [winetricks |-> <<>>, libraries |-> {}]
    /\ requested = {}
    /\ executed = [v \in Verbs |-> 0]
    /\ lastInstalled = NoLibraries
    /\ regEdits = {}
    /\ runs = 0
    /\ prefixDir = "absent"
    /\ userLinks = FALSE
    /\ prefixLock = 0
    /\ log = [p \in Procs |-> <<>>]
    /\ err = [p \in Procs |-> "none"]
    /\ cmd = [p \in Procs |-> NoCmd]
    /\ mode = "none"
    /\ dos = <<>>
    /\ host = {}
    /\ mntMap = <<>>
    /\ mntOk = "none"
    /\ cfgUnit = [key |-> <<>>, name |-> [some |-> FALSE, v |-> <<>>],
                  prefix |-> [some |-> FALSE, v |-> <<>>]]
    /\ unitPrefix = <<>>
    /\ dlIn = <<>>
    /\ dlOut = <<>>
    /\ jf = <<>>
    /\ jr = <<>>
    /\ jpc = <<>>
    /\ jcalls = <<>>
    /\ jret = <<>>
    /\ jlock = FALSE
    /\ jdone = <<>>
    /\ jerr = "none"
    /\ fanUnit = <<>>
    /\ written = <<>>
    /\ ovIn = <<>>
    /\ ovOut = <<>>
    /\ envIn = <<>>
    /\ envOut = <<>>
    /\ rtIn = <<>>
    /\ rtOut = <<>>
    /\ fresh = <<>>

\* A launcher process is started with a Unit.
Start(p, u) ==
    /\ pc[p] \in {"idle", "done", "failed", "killed"}
    /\ launches < MaxLaunches
    /\ launches' = launches + 1
    /\ pc' = [pc EXCEPT ![p] = "start"]
    /\ unit' = [unit EXCEPT ![p] = u]
    /\ log' = [log EXCEPT ![p] = <<>>]
    /\ err' = [err EXCEPT ![p] = "none"]
    /\ cmd' = [cmd EXCEPT ![p] = NoCmd]
    /\ UNCHANGED <<tree, cache, bin, stateFile, clock, cacheLock, st, res, lastFan,
                   advances, faults>>
    /\ UNCHANGED <<fnVars, prefixVars, prefixDir, userLinks, prefixLock>>

Count(b) == IF b THEN 1 ELSE 0

\* launch returns (how = "done", "failed") or its process dies ("killed"):
\* its locals are gone
Return(p, how) ==
    /\ pc' = [pc EXCEPT ![p] = how]
    /\ unit' = [unit EXCEPT ![p] = NoUnit]
    /\ st' = [st EXCEPT ![p] = EmptyState]
    /\ res' = [res EXCEPT ![p] = NoResult]

\* a lock that excludes nobody
CanLockShared(p) == TRUE

\* lock.lock_with_pid() blocks until libraries/.brie.lock is free
CanLock(p) == cacheLock = 0

\* launch: create_dir_all(libraries); LockFile::open; lock_with_pid
Lock(p) ==
    /\ pc[p] = "start"
    /\ CanLock(p)
    /\ cacheLock' = p
    /\ pc' = [pc EXCEPT ![p] = "locked"]
    /\ UNCHANGED <<tree, cache, bin, stateFile, clock, unit, st, res, lastFan,
                   launches, advances, faults>>
    /\ UNCHANGED <<fnVars, prefixVars, runVars>>

\* launch: create_dir_all or LockFile::open fails: Error::Libraries / Error::Lock
LockFail(p) ==
    /\ pc[p] = "start"
    /\ faults < MaxFaults
    /\ faults' = faults + 1
    /\ Return(p, "failed")
    /\ \E e \in {"Libraries", "Lock"} : err' = [err EXCEPT ![p] = e]
    /\ UNCHANGED <<tree, cache, bin, stateFile, clock, cacheLock,
                   lastFan, launches, advances>>
    /\ UNCHANGED <<fnVars, prefixVars, prefixDir, userLinks, prefixLock, log, cmd>>

\* a launch that keeps the cache lock after the join
KeptAfterJoin(p) == p

\* launch: drop(lock) after join!: the cache lock is free
AfterJoin(p) == 0

\* launch: state::read, the join! of the four tasks (runtime, winetricks,
\* cabextract, libraries), drop(lock). The runtime is Runtime::System, found
\* by which("wine") or not. A kill inside the library download ends the
\* process; the kernel releases its lock.
FanOut(p, wineOk, wtFail, cabFail, metaFail, fail) ==
    /\ pc[p] = "locked"
    /\ LET state == stateFile
           tsu == Elapsed(state.lib, clock)
           asked == ~Exists(cache, unit[p]) \/ IsDue(unit[p], tsu)
           meta == IF metaFail THEN NoRelease ELSE get_meta(tree, unit[p])
           n == Count(~wineOk) + Count(wtFail # "none") + Count(cabFail # "none")
                + Count(metaFail) + Count(fail # "none")
       IN  \* a failure is injected only where the code reaches it
           /\ faults + n <= MaxFaults
           /\ wtFail # "none" => bin.winetricks = "absent"
           /\ cabFail # "none" => bin.cabextract = "absent"
           /\ metaFail => asked
           /\ \E lib \in {ensure_library_exists(cache, unit[p], tsu, meta, fail)},
                 wt \in {ensure_winetricks_exists(bin.winetricks, wtFail)},
                 cab \in {ensure_cabextract_exists(bin.cabextract, cabFail)} :
                /\ fail # "none" => lib.branch \in {"update", "install"}
                /\ faults' = faults + n
                /\ cache' = [dirs |-> lib.dirs, latest |-> lib.latest]
                /\ bin' = [winetricks |-> wt.file, cabextract |-> cab.file]
                /\ IF lib.killed
                   THEN Return(p, "killed")
                   ELSE /\ pc' = [pc EXCEPT ![p] = "joined"]
                        /\ unit' = unit
                        /\ st' = [st EXCEPT ![p] = state]
                        /\ res' = [res EXCEPT ![p] =
                               [wine |-> wineOk, winetricks |-> wt.ok,
                                cabextract |-> cab.ok, toolHttp |-> wt.http \/ cab.http,
                                branch |-> lib.branch, ok |-> lib.ok,
                                updated |-> lib.updated, queried |-> lib.queried,
                                resolved |-> lib.resolved, created |-> lib.created,
                                fetched |-> lib.fetched, dlok |-> lib.dlok]]
                /\ lastFan' = IF ~lib.killed /\ wineOk /\ wt.ok /\ cab.ok /\ lib.ok
                               THEN unit[p] ELSE NoUnit
    /\ cacheLock' = AfterJoin(p)
    /\ UNCHANGED <<tree, stateFile, clock, launches, advances>>
    /\ UNCHANGED <<fnVars, prefixVars, runVars>>

\* the first Err in the order of the tuple join! returns
FanOutErrorInTupleOrder(r) ==
    IF ~r.wine THEN "Runtime"
    ELSE IF ~r.winetricks THEN "LibraryDownload(winetricks)"
    ELSE IF ~r.cabextract THEN "LibraryDownload(cabextract)"
    ELSE "LibraryDownload(library)"

\* the Error of `wine?; libraries?; winetricks?; cabextract?`
FanOutErrorOf(r) ==
    IF ~r.wine THEN "Runtime"
    ELSE IF ~r.ok THEN "LibraryDownload(library)"
    ELSE IF ~r.winetricks THEN "LibraryDownload(winetricks)"
    ELSE "LibraryDownload(cabextract)"

\* launch: `wine?; libraries?; winetricks?; cabextract?`: the first error of
\* the fan-out is returned
FanOutError(p) ==
    /\ pc[p] = "joined"
    /\ ~(res[p].wine /\ res[p].ok /\ res[p].winetricks /\ res[p].cabextract)
    /\ Return(p, "failed")
    /\ err' = [err EXCEPT ![p] = FanOutErrorOf(res[p])]
    /\ UNCHANGED <<tree, cache, bin, stateFile, clock, cacheLock,
                   lastFan, launches, advances, faults>>
    /\ UNCHANGED <<fnVars, prefixVars, prefixDir, userLinks, prefixLock, log, cmd>>

\* launch: the State to write: state.wine = now if wine.updated (never for
\* Runtime::System), state.libraries[l] = now for every updated library
UpdatedState(s, r, now) ==
    [wine |-> s.wine, lib |-> IF r.updated THEN now ELSE s.lib]

\* launch: update the timestamps, state::write
WriteState(p) ==
    /\ pc[p] = "joined"
    /\ res[p].wine /\ res[p].ok /\ res[p].winetricks /\ res[p].cabextract
    /\ stateFile' = UpdatedState(st[p], res[p], clock)
    /\ pc' = [pc EXCEPT ![p] = "written"]
    /\ UNCHANGED <<tree, cache, bin, clock, cacheLock, unit, st, res, lastFan,
                   launches, advances, faults>>
    /\ UNCHANGED <<fnVars, prefixVars, runVars>>

\* launch: state::write fails (Error::StateWrite): the file is left as it
\* was, or truncated, which state::read takes for the default State
WriteStateFail(p, truncated) ==
    /\ pc[p] = "joined"
    /\ res[p].wine /\ res[p].ok /\ res[p].winetricks /\ res[p].cabextract
    /\ faults < MaxFaults
    /\ faults' = faults + 1
    /\ stateFile' = IF truncated THEN EmptyState ELSE stateFile
    /\ Return(p, "failed")
    /\ err' = [err EXCEPT ![p] = "StateWrite"]
    /\ UNCHANGED <<tree, cache, bin, clock, cacheLock, lastFan,
                   launches, advances>>
    /\ UNCHANGED <<fnVars, prefixVars, prefixDir, userLinks, prefixLock, log, cmd>>

\* launch: everything after the state write (runner, prefix preparation, the
\* user command, the final wineserver --wait) succeeds or fails
Finish(p, ok) ==
    /\ pc[p] = "written"
    /\ Return(p, IF ok THEN "done" ELSE "failed")
    /\ UNCHANGED <<tree, cache, bin, stateFile, clock, cacheLock,
                   lastFan, launches, advances, faults>>
    /\ UNCHANGED <<fnVars, prefixVars, runVars>>

\* The wall clock advances.
Advance(d) ==
    /\ advances < MaxAdvances
    /\ advances' = advances + 1
    /\ clock' = clock + d
    /\ UNCHANGED <<tree, cache, bin, stateFile, cacheLock, pc, unit, st, res,
                   lastFan, launches, faults>>
    /\ UNCHANGED <<fnVars, prefixVars, runVars>>

\* Upstream publishes a release.
Publish(v) ==
    /\ \A i \in 1..Len(tree) : tree[i] # FileName(v)
    /\ tree' = Append(tree, FileName(v))
    /\ UNCHANGED <<cache, bin, stateFile, clock, cacheLock, pc, unit, st, res,
                   lastFan, launches, advances, faults>>
    /\ UNCHANGED <<fnVars, prefixVars, runVars>>

Next ==
    \/ \E p \in Procs, u \in Selectors : Start(p, u)
    \/ \E p \in Procs : Lock(p)
    \/ \E p \in Procs : LockFail(p)
    \/ \E p \in Procs, wineOk \in BOOLEAN, wtFail \in ToolFaults \cup {"none"},
          cabFail \in CabFaults \cup {"none"}, metaFail \in BOOLEAN,
          fail \in DownloadFaults \cup {"none"} :
            FanOut(p, wineOk, wtFail, cabFail, metaFail, fail)
    \/ \E p \in Procs : FanOutError(p)
    \/ \E p \in Procs : WriteState(p)
    \/ \E p \in Procs, truncated \in BOOLEAN : WriteStateFail(p, truncated)
    \/ \E p \in Procs, ok \in BOOLEAN : Finish(p, ok)
    \/ \E d \in {FreshnessWindow, FreshnessWindow + 1} : Advance(d)
    \/ \E v \in Versions : Publish(v)

Spec == Init /\ [][Next]_vars

\* ------------------------------------------------------------------------
\* The prefix ledgers: <prefix>/.winetricks and <prefix>/.overrides
\* ------------------------------------------------------------------------

\* number of launches on the prefix over a behaviour
MaxRuns == 3

Range(f) == {f[i] : i \in DOMAIN f}

\* str::lines: the text cut at every "\n"; a last line needs no terminator
RECURSIVE lines(_)
lines(text) ==
    IF text = <<>> THEN <<>>
    ELSE LET nl == {i \in 1..Len(text) : text[i] = "\n"}
         IN  IF nl = {} THEN <<text>>
             ELSE LET i == CHOOSE k \in nl : \A j \in nl : k <= j
                  IN  <<SubSeq(text, 1, i - 1)>> \o lines(SubSeq(text, i + 1, Len(text)))

\* str::split_whitespace: the maximal runs of non-space bytes of a line
RECURSIVE split_whitespace(_)
split_whitespace(line) ==
    IF line = <<>> THEN <<>>
    ELSE IF Head(line) = " " THEN split_whitespace(Tail(line))
    ELSE LET sp == {i \in 1..Len(line) : line[i] = " "}
             e == IF sp = {} THEN Len(line) + 1
                  ELSE CHOOSE k \in sp : \A j \in sp : k <= j
         IN  <<SubSeq(line, 1, e - 1)>> \o split_whitespace(SubSeq(line, e + 1, Len(line)))

\* str::strip_suffix(..).unwrap_or(s)
StripSuffix(str, suffix) ==
    IF EndsWith(str, suffix) THEN SubSeq(str, 1, Len(str) - Len(suffix)) ELSE str

\* writeln!(file, "{l}") for each line l of ls: the bytes written
RECURSIVE WriteLines(_)
WriteLines(ls) ==
    IF ls = <<>> THEN <<>> ELSE Head(ls) \o <<"\n">> \o WriteLines(Tail(ls))

\* OpenOptions::new().write(true).create(true).open(file) and the writes that
\* follow: the file is neither truncated nor opened for append, so the bytes
\* go over the file from its first byte on and the rest of it stays.
WriteFromStart(file, bytes) == bytes \o SubSeq(file, Len(bytes) + 1, Len(file))

\* the lists of winetricks verbs a Unit may have
PackageLists ==
    {<<>>, <<Corefonts>>, <<Vcrun6>>, <<Corefonts, Vcrun6>>, <<Vcrun6, Corefonts>>,
     <<Corefonts, Corefonts>>}

\* number of executions of one verb that the history tells apart
MaxExecuted == 2

\* the number of elements of seq equal to x
Occurrences(seq, x) == Cardinality({i \in DOMAIN seq : seq[i] = x})

\* CommandRunner::winetricks(packages): the .winetricks file it leaves and its
\* result; failAt = k > 0: `winetricks -q` cannot be run for the k-th verb
\* to install. ran: the verbs `winetricks -q` was executed for.
winetricks(file, packages, failAt) ==
    LET installed == Range(lines(file))
        Missing(pkg) == pkg \notin installed
        new == SelectSeq(packages, Missing)
    IN  IF failAt \in 1..Len(new)
        THEN [file |-> file, ok |-> FALSE, ran |-> SubSeq(new, 1, failAt - 1)]
        ELSE [file |-> WriteFromStart(file, WriteLines(new)), ok |-> TRUE, ran |-> new]

\* Arch as Display writes it and FromStr reads it
X86 == <<"X", "8", "6">>
X64 == <<"X", "6", "4">>

\* the dll files install_libraries copies for a library, with their Arch
NvapiDll64 == <<"n", "v", "a", "p", "i", "6", "4", ".", "d", "l", "l">>
NvapiDll == <<"n", "v", "a", "p", "i", ".", "d", "l", "l">>
NvcudaSo == <<"n", "v", "c", "u", "d", "a", ".", "d", "l", "l", ".", "s", "o">>
NvoptixSo == <<"n", "v", "o", "p", "t", "i", "x", ".", "d", "l", "l", ".", "s", "o">>
LibraryDlls(library) ==
    IF library = "DxvkNvapi"
    THEN <<[arch |-> X64, dll |-> NvapiDll64], [arch |-> X86, dll |-> NvapiDll]>>
    ELSE \* Library::NvidiaLibs
         <<[arch |-> X64, dll |-> NvcudaSo], [arch |-> X64, dll |-> NvoptixSo],
           [arch |-> X86, dll |-> NvcudaSo]>>

\* the library sets a Unit may have
LibrarySets == SUBSET {"DxvkNvapi", "NvidiaLibs"}

\* install_dlls: the name an override is recorded under
OverrideName(dll) ==
    LET unso == StripSuffix(dll, <<".", "s", "o">>)
    IN  IF EndsWith(unso, <<".", "d", "l", "l">>)
        THEN StripSuffix(unso, <<".", "d", "l", "l">>)
        ELSE dll

\* Overrides::new(existing).all: the (arch, dll) pairs read from .overrides
OverridesAll(existing) ==
    {[arch |-> t[1], dll |-> t[2]] :
        t \in {u \in {split_whitespace(l) : l \in Range(lines(existing))} :
                  Len(u) >= 2 /\ u[1] \in {X86, X64}}}

\* the overrides a set of libraries asks for
OverridesOf(libraries) ==
    UNION {{[arch |-> LibraryDlls(l)[i].arch, dll |-> OverrideName(LibraryDlls(l)[i].dll)] :
               i \in DOMAIN LibraryDlls(l)} : l \in libraries}

\* the orders in which a HashSet can hand out its elements
Orders(set) ==
    {o \in [1..Cardinality(set) -> set] : \A i, j \in DOMAIN o : o[i] = o[j] => i = j}

\* the line written for an override: "{arch} {dll}"
OverrideLine(o) == o.arch \o <<" ">> \o o.dll

\* a run that opens .overrides whatever happened before
OpensAlways(new, copyFails) == 1

\* install_libraries: a failed copy returns before the file is opened, and
\* so does `if overrides.new.is_empty() { return Ok(()) }`; otherwise the
\* file is opened once, after the loop over the libraries
OpensForWriting(new, copyFails) == IF copyFails \/ new = {} THEN 0 ELSE 1

\* Runner::install_libraries(libraries): the .overrides file it leaves and its
\* result. copyFails: a copy_dll or override_dll fails, which returns before
\* the file is written; order: the iteration order of overrides.new.
\* edits: the overrides added to the registry (override_dll).
\* opens: how many times .overrides is opened for writing.
install_libraries(file, libraries, order, copyFails) ==
    LET new == OverridesOf(libraries) \ OverridesAll(file)
        opens == OpensForWriting(new, copyFails)
    IN  [file |-> IF opens = 0 THEN file
                  ELSE WriteFromStart(file,
                          WriteLines([i \in DOMAIN order |-> OverrideLine(order[i])])),
         ok |-> ~copyFails,
         edits |-> IF copyFails THEN {} ELSE new,
         opens |-> opens]

\* launch on the prefix: Runner::new, prepare_wine_prefix, the prefix lock
StartPrefix(packages, libraries) ==
    /\ prefixPc = "idle"
    /\ runs < MaxRuns
    /\ runs' = runs + 1
    /\ prefixUnit' = [winetricks |-> packages, libraries |-> libraries]
    /\ prefixPc' = "winetricks"
    /\ UNCHANGED <<winetricksFile, overridesFile, overridesOpens, requested, executed,
                   lastInstalled, regEdits>>
    /\ UNCHANGED <<cacheVars, runVars, fnVars>>

\* launch: runner.winetricks(&unit.winetricks)?
Winetricks(failAt) ==
    /\ prefixPc = "winetricks"
    /\ \E r \in {winetricks(winetricksFile, prefixUnit.winetricks, failAt)} :
          /\ failAt # 0 => ~r.ok
          /\ winetricksFile' = r.file
          /\ requested' = IF r.ok THEN requested \cup Range(prefixUnit.winetricks)
                                  ELSE requested
          /\ executed' =
                [v \in Verbs |->
                    IF executed[v] + Occurrences(r.ran, v) > MaxExecuted
                    THEN MaxExecuted ELSE executed[v] + Occurrences(r.ran, v)]
          /\ prefixPc' = IF r.ok THEN "mounts" ELSE "idle"
    /\ UNCHANGED <<overridesFile, overridesOpens, prefixUnit, lastInstalled, regEdits, runs>>
    /\ UNCHANGED <<cacheVars, runVars, fnVars>>

\* launch: runner.mounts(&unit.mounts)?
Mounts(ok) ==
    /\ prefixPc = "mounts"
    /\ prefixPc' = IF ok THEN "libraries" ELSE "idle"
    /\ UNCHANGED <<winetricksFile, overridesFile, overridesOpens, prefixUnit, requested, executed,
                   lastInstalled, regEdits, runs>>
    /\ UNCHANGED <<cacheVars, runVars, fnVars>>

\* launch: runner.install_libraries(&libraries)? and the rest of the launch
InstallLibraries(copyFails) ==
    /\ prefixPc = "libraries"
    /\ \E order \in Orders(OverridesOf(prefixUnit.libraries) \ OverridesAll(overridesFile)) :
          \E r \in {install_libraries(overridesFile, prefixUnit.libraries, order, copyFails)} :
              /\ overridesFile' = r.file
              /\ overridesOpens' = r.opens
              /\ regEdits' = r.edits
              /\ lastInstalled' = IF r.ok THEN prefixUnit.libraries ELSE NoLibraries
    /\ prefixPc' = "idle"
    /\ UNCHANGED <<winetricksFile, prefixUnit, requested, executed, runs>>
    /\ UNCHANGED <<cacheVars, runVars, fnVars>>

NextPrefix ==
    \/ \E packages \in PackageLists, libraries \in LibrarySets :
          StartPrefix(packages, libraries)
    \/ \E failAt \in 0..2 : Winetricks(failAt)
    \/ \E ok \in BOOLEAN : Mounts(ok)
    \/ \E copyFails \in BOOLEAN : InstallLibraries(copyFails)

SpecPrefix == Init /\ [][NextPrefix]_vars

\* ------------------------------------------------------------------------
\* The mounts step: <prefix>/dosdevices/<drive>:
\* ------------------------------------------------------------------------

\* the drives and the targets a mounts mapping may name
Drives == {"d", "e"}
Targets == {"/mnt/a", "/mnt/b"}

\* the mounts mappings of a Unit: HashMap<char, String>
Mappings == UNION {[D -> Targets] : D \in SUBSET Drives}

\* Path::exists follows symlinks: the entry is a link and what it points to
\* exists
SymlinkExists(entry, hostPaths) == entry # "absent" /\ entry \in hostPaths

\* one turn of the loop of CommandRunner::mounts, for (drive, new_target):
\* the entry it leaves and whether it went through; "EEXIST": symlink() on a
\* path that is already there
MountOne(entry, hostPaths, newTarget) ==
    IF SymlinkExists(entry, hostPaths)
    THEN IF entry = newTarget
         THEN [entry |-> entry, ok |-> TRUE]
         ELSE \* remove_file, then symlink
              [entry |-> newTarget, ok |-> TRUE]
    ELSE IF entry = "absent"
         THEN [entry |-> newTarget, ok |-> TRUE]
         ELSE \* symlink(): EEXIST, MountsError::Link
              [entry |-> entry, ok |-> FALSE]

\* CommandRunner::mounts(mounts): the loop over the mapping in the order the
\* HashMap hands out its entries; the first Err returns
RECURSIVE mounts(_, _, _, _)
mounts(entries, hostPaths, mapping, order) ==
    IF order = <<>> THEN [dos |-> entries, ok |-> TRUE]
    ELSE LET d == Head(order)
             r == MountOne(entries[d], hostPaths, mapping[d])
         IN  IF ~r.ok THEN [dos |-> entries, ok |-> FALSE]
             ELSE mounts([entries EXCEPT ![d] = r.entry], hostPaths, mapping, Tail(order))

\* a prefix with its dosdevices entries, on a host with some of the targets
MountsSetup(entries, hostPaths) ==
    /\ mode = "none"
    /\ mode' = "mounts"
    /\ dos' = entries
    /\ host' = hostPaths
    /\ UNCHANGED <<mntMap, mntOk>>
    /\ UNCHANGED notMnt

\* launch: runner.mounts(&unit.mounts)
MountsRun(mapping) ==
    /\ mode = "mounts"
    /\ \E order \in Orders(DOMAIN mapping) :
          \E r \in {mounts(dos, host, mapping, order)} :
              /\ dos' = r.dos
              /\ mntOk' = IF r.ok THEN "ok" ELSE "err"
    /\ mntMap' = mapping
    /\ UNCHANGED <<mode, host>>
    /\ UNCHANGED notMnt

\* ------------------------------------------------------------------------
\* The prefix of the Unit: brie's main.rs
\* ------------------------------------------------------------------------

\* the longest name of the model, in characters
MaxNameLen == 2

\* sanitize_directory_name: ILLEGAL
Illegal == {"/", "\\", ":", "*", "?", "\"", "<", ">", "|"}

\* the characters of the names of the model
NameChars == {"a", "/", ":"}

\* the strings a key, a name or a prefix field may be
Names == UNION {[1..n -> NameChars] : n \in 0..MaxNameLen}

\* Option<String>
None == [some |-> FALSE, v |-> <<>>]
Some(x) == [some |-> TRUE, v |-> x]

\* sanitize_directory_name: the characters of dir_name that are not ILLEGAL
sanitize_directory_name(dirName) ==
    LET Legal(c) == c \notin Illegal
    IN  SelectSeq(dirName, Legal)

\* launch of brie's main.rs: unit.prefix.unwrap_or_else(||
\* sanitize_directory_name(&unit.common.name.unwrap_or(name)))
UnitPrefix(u) ==
    IF u.prefix.some THEN u.prefix.v
    ELSE sanitize_directory_name(IF u.name.some THEN u.name.v ELSE u.key)

\* a unit of the configuration is picked for launch
ConfigSetup(key, name, prefix) ==
    /\ mode = "none"
    /\ mode' = "config"
    /\ cfgUnit' = [key |-> key, name |-> name, prefix |-> prefix]
    /\ UNCHANGED unitPrefix
    /\ UNCHANGED notCfg

\* launch of brie's main.rs builds the Unit for brie_wine::launch
BuildUnit ==
    /\ mode = "config"
    /\ mode' = "unit"
    /\ unitPrefix' = UnitPrefix(cfgUnit)
    /\ UNCHANGED cfgUnit
    /\ UNCHANGED notCfg

\* ------------------------------------------------------------------------
\* The archive dispatch of Downloadable::download
\* ------------------------------------------------------------------------

\* the endings of the file names of the model
TarGz == <<".", "t", "a", "r", ".", "g", "z">>
TarXz == <<".", "t", "a", "r", ".", "x", "z">>
TarZst == <<".", "t", "a", "r", ".", "z", "s", "t">>
Zip == <<".", "z", "i", "p">>
Endings ==
    {TarGz, TarXz, TarZst, Zip, <<".", "t", "a", "r">>, <<".", "g", "z">>,
     TarGz \o <<".", "s", "i", "g">>, <<".", "T", "A", "R", ".", "G", "Z">>,
     <<"t", "a", "r", ".", "x", "z">>, <<>>}

\* the beginnings of the file names of the model
Stems == {<<"l", "i", "b">>, <<"a", ".", "t", "a", "r", ".", "z", "s", "t", "-", "1">>, <<>>}

\* a release of version 2 is handed to download_library: its file name, and
\* the state of libraries/<name>/2
DownloadSetup(stem, ending, dir) ==
    /\ mode = "none"
    /\ mode' = "download"
    /\ dlIn' = [filename |-> stem \o ending, ending |-> ending, dir |-> dir]
    /\ UNCHANGED dlOut
    /\ UNCHANGED notDl

\* download_library(library, Tag(2), release, library_dir)
DownloadRun(fail) ==
    /\ mode = "download"
    /\ mode' = "downloaded"
    /\ \E r \in {download_library([EmptyCache EXCEPT !.dirs[V2] = dlIn.dir], Tag(V2),
                                  [version |-> V2, filename |-> dlIn.filename], fail)} :
          dlOut' = [decoder |-> Decoder(dlIn.filename), ok |-> r.ok,
                    dir |-> r.dirs[V2], fail |-> fail]
    /\ UNCHANGED dlIn
    /\ UNCHANGED notDl

\* ------------------------------------------------------------------------
\* join! and the fan-out of launch
\* ------------------------------------------------------------------------

\* the closures handed to join! by launch: runtime, winetricks, cabextract,
\* libraries
Closures == 1..4

\* the threads of the rayon pool
PoolThreads == 2

\* launch takes the cache lock and expands join!: every closure is wrapped
\* in Some, every result slot is None
JoinEnter ==
    /\ mode = "none"
    /\ mode' = "join"
    /\ jlock' = TRUE
    /\ jf' = [i \in Closures |-> "Some"]
    /\ jr' = [i \in Closures |-> None]
    /\ jpc' = [i \in Closures |-> "queued"]
    /\ jcalls' = [i \in Closures |-> 0]
    /\ UNCHANGED <<jret, jdone, jerr>>
    /\ UNCHANGED notJoin

\* a thread of the pool takes element i of the array and calls it:
\* (&mut f).take().unwrap()
JoinCall(i) ==
    /\ mode = "join"
    /\ jpc[i] = "queued"
    /\ Cardinality({k \in Closures : jpc[k] = "running"}) < PoolThreads
    /\ jf[i] = "Some"
    /\ jf' = [jf EXCEPT ![i] = "None"]
    /\ jcalls' = [jcalls EXCEPT ![i] = @ + 1]
    /\ jpc' = [jpc EXCEPT ![i] = "running"]
    /\ UNCHANGED <<mode, jr, jret, jlock, jdone, jerr>>
    /\ UNCHANGED notJoin

\* closure i returns and its wrapper stores r = Some(result)
JoinStore(i, ok) ==
    /\ mode = "join"
    /\ jpc[i] = "running"
    /\ jr' = [jr EXCEPT ![i] = Some([by |-> i, ok |-> ok])]
    /\ jpc' = [jpc EXCEPT ![i] = "done"]
    /\ jdone' = Append(jdone, i)
    /\ UNCHANGED <<mode, jf, jcalls, jret, jlock, jerr>>
    /\ UNCHANGED notJoin

\* a for_each that comes back as soon as nothing is queued
ForEachDoneWhenDealt == \A i \in Closures : jpc[i] # "queued"

\* ParallelIterator::for_each comes back when every element has been called
\* and has returned
ForEachDone == \A i \in Closures : jpc[i] = "done"

\* ($($r.unwrap(),)*): the tuple of the slots; unwrap of an empty slot panics
JoinReturn ==
    /\ mode = "join"
    /\ ForEachDone
    /\ mode' = "joined"
    /\ jret' = [panicked |-> \E i \in Closures : ~jr[i].some,
                tuple |-> [i \in Closures |-> jr[i].v]]
    /\ UNCHANGED <<jf, jr, jpc, jcalls, jlock, jdone, jerr>>
    /\ UNCHANGED notJoin

\* drop(lock), or the lock dropped by the unwinding of a panic
JoinDropLock ==
    /\ mode = "joined"
    /\ jlock
    /\ jlock' = FALSE
    /\ UNCHANGED <<mode, jf, jr, jpc, jcalls, jret, jdone, jerr>>
    /\ UNCHANGED notJoin

\* launch: `let wine = wine?; let libraries = libraries?; winetricks?;
\* cabextract?;` on the tuple (wine, winetricks, cabextract, libraries)
JoinQuestionMarks ==
    /\ mode = "joined"
    /\ ~jlock
    /\ ~jret.panicked
    /\ mode' = "unwrapped"
    /\ \E r \in {[wine |-> jret.tuple[1].ok, winetricks |-> jret.tuple[2].ok,
                   cabextract |-> jret.tuple[3].ok, ok |-> jret.tuple[4].ok]} :
          jerr' = IF r.wine /\ r.ok /\ r.winetricks /\ r.cabextract
                  THEN "none" ELSE FanOutErrorOf(r)
    /\ UNCHANGED <<jf, jr, jpc, jcalls, jret, jlock, jdone>>
    /\ UNCHANGED notJoin

\* ------------------------------------------------------------------------
\* The paths written by the tasks of the fan-out
\* ------------------------------------------------------------------------

\* Downloadable::name of the runtimes and of two of the libraries
LibraryNames == {"dxvk", "dxvk-nvapi"}
ToolNames == {"winetricks", "cabextract"}

\* the tasks of one fan-out: the runtime, the two tools, one per library
FanTasks == {"runtime"} \cup ToolNames \cup LibraryNames

\* a requested version: absent from the Unit, Latest or a tag
Requests == {"absent", "latest", "v1"}

\* a single link `latest` for the whole cache
LatestLinkOfCache(libraryDir) == <<"libraries", "latest">>

\* library_dir.join("latest")
LatestLink(libraryDir) == libraryDir \o <<"latest">>

\* download_library: the paths it creates, renames, removes or links, for a
\* release whose archive holds a single directory (flattened) or not, and
\* which fails in the unpacking or not
WrittenByDownload(name, request, releaseVersion, single, fail) ==
    LET libraryDir == <<"libraries", name>>
        dest == libraryDir \o <<releaseVersion>>
        created == {libraryDir, dest}
        unpacked == IF single THEN {dest \o <<name>>, dest \o <<name, "x64">>}
                    ELSE {dest \o <<"x64">>, dest \o <<"x32">>}
        flattened == IF single
                     THEN {dest \o <<"uuid">>, dest \o <<"uuid", "x64">>, dest \o <<"x64">>}
                     ELSE {}
        linked == IF request = "latest" THEN {LatestLink(libraryDir)} ELSE {}
    IN  IF fail = "http" THEN created
        ELSE IF fail = "unpack" THEN created \cup {dest \o <<"x64">>}
        ELSE created \cup unpacked \cup flattened \cup linked

\* ensure_library_exists: nothing is written when the version directory
\* exists and is not due for a check, when get_meta fails, or when the
\* latest release is the one the link points to
WrittenByEnsure(name, request, exists, due, meta, releaseVersion, single, fail) ==
    IF exists /\ ~(request = "latest" /\ due) THEN {}
    ELSE IF meta = "err" THEN {}
    ELSE IF exists /\ meta = "same" THEN {}
    ELSE WrittenByDownload(name, request, releaseVersion, single, fail)

\* ensure_winetricks_exists / ensure_cabextract_exists
WrittenByTool(tool, exists, fail) ==
    IF exists \/ fail = "http" THEN {}
    ELSE {<<"libraries", ".bin">>, <<"libraries", ".bin", tool>>}

\* what a task finds: whether its version directory exists, whether the
\* check of the latest release is due, and what get_meta answers
EnsureCases ==
    {[exists |-> TRUE, due |-> FALSE, meta |-> "new"],
     [exists |-> TRUE, due |-> TRUE, meta |-> "err"],
     [exists |-> TRUE, due |-> TRUE, meta |-> "same"],
     [exists |-> TRUE, due |-> TRUE, meta |-> "new"],
     [exists |-> FALSE, due |-> FALSE, meta |-> "err"],
     [exists |-> FALSE, due |-> FALSE, meta |-> "new"]}

\* the runtimes a Unit may ask for
FanRuntimes ==
    {[name |-> "system", version |-> "absent"],
     [name |-> "wine-ge-custom", version |-> "latest"],
     [name |-> "wine-tkg", version |-> "v1"]}

\* launch is handed a Unit: its runtime and the version asked of each library
FanSetup(runtime, libraries) ==
    /\ mode = "none"
    /\ mode' = "fan"
    /\ fanUnit' = [runtime |-> runtime, libraries |-> libraries]
    /\ written' = [t \in {} |-> {}]
    /\ UNCHANGED notFan

\* the closure of the runtime: the system wine is looked up, the others are
\* ensured like a library
FanRuntime(found, releaseVersion, fail) ==
    /\ mode = "fan"
    /\ "runtime" \notin DOMAIN written
    /\ written' = [t \in DOMAIN written \cup {"runtime"} |->
                     IF t # "runtime" THEN written[t]
                     ELSE IF fanUnit.runtime.name = "system" THEN {}
                     ELSE WrittenByEnsure(fanUnit.runtime.name, fanUnit.runtime.version,
                                          found.exists, found.due, found.meta,
                                          releaseVersion, TRUE, fail)]
    /\ UNCHANGED <<mode, fanUnit>>
    /\ UNCHANGED notFan

\* the closures of winetricks and cabextract
FanTool(tool, exists, fail) ==
    /\ mode = "fan"
    /\ tool \notin DOMAIN written
    /\ written' = [t \in DOMAIN written \cup {tool} |->
                     IF t # tool THEN written[t] ELSE WrittenByTool(tool, exists, fail)]
    /\ UNCHANGED <<mode, fanUnit>>
    /\ UNCHANGED notFan

\* one element of unit.libraries.par_iter()
FanLibrary(name, found, releaseVersion, single, fail) ==
    /\ mode = "fan"
    /\ name \notin DOMAIN written
    /\ fanUnit.libraries[name] # "absent"
    /\ written' = [t \in DOMAIN written \cup {name} |->
                     IF t # name THEN written[t]
                     ELSE WrittenByEnsure(name, fanUnit.libraries[name], found.exists,
                                          found.due, found.meta, releaseVersion, single,
                                          fail)]
    /\ UNCHANGED <<mode, fanUnit>>
    /\ UNCHANGED notFan

\* ------------------------------------------------------------------------
\* The readers of .overrides
\* ------------------------------------------------------------------------

\* the two forms of a line for an override: "{arch} {dll}" and "{dll}"
LineForms(o) == {OverrideLine(o), o.dll}

\* the lines a .overrides file of the model is made of
OverrideLines == UNION {LineForms(o) : o \in OverridesOf({"DxvkNvapi"})}

\* the .overrides files of at most two lines
OverridesFiles ==
    {WriteLines(ls) : ls \in UNION {[1..n -> OverrideLines] : n \in 0..2}}

\* brie_wine: Overrides::new(existing).all, the lines of the file
OverridesAllLines(existing) == Range(lines(existing))

\* brie_wine: overrides.new after install_libraries, names without an Arch
OverridesNewLines(existing, libraries) ==
    {o.dll : o \in OverridesOf(libraries)} \ OverridesAllLines(existing)

\* a prefix holds a .overrides file and a Unit asks for libraries
OverridesSetup(file, libraries) ==
    /\ mode = "none"
    /\ mode' = "overrides"
    /\ ovIn' = [file |-> file, libraries |-> libraries]
    /\ UNCHANGED ovOut
    /\ UNCHANGED notOv

\* install_libraries of brie_lib and of brie_wine on that prefix
OverridesRun ==
    /\ mode = "overrides"
    /\ mode' = "overridden"
    /\ \E order \in Orders(OverridesOf(ovIn.libraries) \ OverridesAll(ovIn.file)) :
          \E r \in {install_libraries(ovIn.file, ovIn.libraries, order, FALSE)} :
             ovOut' = [edits |-> r.edits, file |-> r.file,
                       editsOfLines |-> OverridesNewLines(ovIn.file, ovIn.libraries)]
    /\ UNCHANGED ovIn
    /\ UNCHANGED notOv

\* ------------------------------------------------------------------------
\* WINEDLLPATH in the environment of the Runner
\* ------------------------------------------------------------------------

\* path.join("lib64").join("wine") of the NvidiaLibs directory
Path64 == <<"<libdir>/lib64/wine">>

\* the WINEDLLPATH values of a Unit's env: a text is a sequence of path
\* names and ":" separators
UserDllPaths == {None, Some(<<"/u">>), Some(<<"/u", ":", "/v">>), Some(<<>>)}

\* mut_env(library, path, env): the WINEDLLPATH it leaves
mut_env(library, value) ==
    IF library = "NvidiaLibs"
    THEN IF value.some THEN Some(value.v \o <<":">> \o Path64) ELSE Some(Path64)
    ELSE value

\* Runner::new: `for (&library, path) in libraries { mut_env(..) }`
RECURSIVE RunnerEnv(_, _)
RunnerEnv(libraries, value) ==
    IF libraries = <<>> THEN value
    ELSE RunnerEnv(Tail(libraries), mut_env(Head(libraries), value))

\* a Unit with env and libraries is handed to Runner::new
EnvSetup(value, libraries) ==
    /\ mode = "none"
    /\ mode' = "env"
    /\ envIn' = [value |-> value, libraries |-> libraries]
    /\ UNCHANGED envOut
    /\ UNCHANGED notEnv

\* Runner::new
EnvRun ==
    /\ mode = "env"
    /\ mode' = "runner"
    /\ envOut' = RunnerEnv(envIn.libraries, envIn.value)
    /\ UNCHANGED envIn
    /\ UNCHANGED notEnv

\* ------------------------------------------------------------------------
\* The runtime and its wine binary
\* ------------------------------------------------------------------------

\* Runtime::System, Runtime::GeProton, Runtime::Tkg
Runtimes == {"System", "GeProton", "Tkg"}

\* ensure_runtime_exists: which(wine) for the system runtime; for the others
\* ensure_library_exists, and the path of the binary is joined onto the
\* directory it returns
ensure_runtime_exists(runtime, onPath, downloadOk) ==
    IF runtime = "System" THEN onPath ELSE downloadOk

\* a launch: its runtime; whether the runtime's directory holds bin/wine
\* (usr/bin/wine); whether a wine is on the inherited PATH; whether the
\* download of the runtime succeeds; whether the prefix exists
RuntimeSetup(runtime, binary, onPath, downloadOk, prefix) ==
    /\ mode = "none"
    /\ mode' = "runtime"
    /\ runtime = "System" => (binary = onPath /\ downloadOk)
    /\ ~downloadOk => ~binary
    /\ rtIn' = [runtime |-> runtime, binary |-> binary, onPath |-> onPath,
                downloadOk |-> downloadOk, prefix |-> prefix]
    /\ rtOut' = [steps |-> <<>>, err |-> "none"]
    /\ UNCHANGED notRt

\* launch: the fan-out and `let wine = wine?`
RuntimeEnsure ==
    /\ mode = "runtime"
    /\ IF ensure_runtime_exists(rtIn.runtime, rtIn.onPath, rtIn.downloadOk)
       THEN /\ mode' = "prefix"
            /\ rtOut' = [rtOut EXCEPT !.steps = Append(@, "ensure")]
       ELSE /\ mode' = "returned"
            /\ rtOut' = [steps |-> Append(rtOut.steps, "ensure"), err |-> "Runtime"]
    /\ UNCHANGED rtIn
    /\ UNCHANGED notRt

\* launch: Runner::new puts the directory of the binary at the head of PATH;
\* prepare_wine_prefix spawns `wine` unless the prefix exists; then the
\* prefix lock and the steps under it, for a Unit without winetricks
\* packages, libraries and before hooks, whose first spawn of a program of
\* the runtime is `wineserver --wait`
RuntimePrefix ==
    /\ mode = "prefix"
    /\ mode' = "returned"
    /\ LET spawns == rtIn.binary \/ rtIn.onPath
       IN  rtOut' =
              IF rtIn.prefix = "exists"
              THEN [steps |-> rtOut.steps \o <<"lock", "winetricks", "wait">>,
                    err |-> IF spawns THEN "none" ELSE "Wait"]
              ELSE [steps |-> rtOut.steps \o <<"init">>
                                \o (IF spawns THEN <<"lock", "winetricks", "wait">>
                                    ELSE <<>>),
                    err |-> IF spawns THEN "none" ELSE "Prefix"]
    /\ UNCHANGED rtIn
    /\ UNCHANGED notRt

\* ------------------------------------------------------------------------
\* One Latest entry over repeated launches
\* ------------------------------------------------------------------------

\* number of launches that follow the installing one
MaxFreshLaunches == 3

\* the time between two launches: a second, the window, just over the window
Gaps == {1, FreshnessWindow, FreshnessWindow + 1}

\* launch, for a unit with one Latest library and nothing failing: state::read,
\* ensure_library_exists with the elapsed time of the entry's timestamp, the
\* timestamp update and state::write
LaunchLatest(c, s, now, listing) ==
    LET lib == ensure_library_exists(c, Latest, Elapsed(s.lib, now),
                                     get_meta(listing, Latest), "none")
    IN  [cache |-> [dirs |-> lib.dirs, latest |-> lib.latest],
         state |-> UpdatedState(s, lib, now),
         queried |-> lib.queried, ok |-> lib.ok]

\* the first launch: nothing cached, the release is installed
FreshSetup(listing) ==
    /\ mode = "none"
    /\ listing # <<>>
    /\ mode' = "fresh"
    /\ \E r \in {LaunchLatest(EmptyCache, EmptyState, 0, listing)} :
          fresh' = [clock |-> 0, cache |-> r.cache, state |-> r.state,
                    lastQuery |-> 0, n |-> 0, queried |-> r.queried, gap |-> 0]
    /\ UNCHANGED notFr

\* a later launch, `d` seconds after the one before, the provider answering
\* with `listing`
FreshLaunch(d, listing) ==
    /\ mode = "fresh"
    /\ fresh.n < MaxFreshLaunches
    /\ listing # <<>>
    /\ \E r \in {LaunchLatest(fresh.cache, fresh.state, fresh.clock + d, listing)} :
          fresh' = [clock |-> fresh.clock + d, cache |-> r.cache, state |-> r.state,
                    lastQuery |-> IF r.queried THEN fresh.clock + d ELSE fresh.lastQuery,
                    n |-> fresh.n + 1, queried |-> r.queried,
                    gap |-> fresh.clock + d - fresh.lastQuery]
    /\ UNCHANGED mode
    /\ UNCHANGED notFr

NextFn ==
    \/ \E entries \in [Drives -> Targets \cup {"absent"}], hostPaths \in SUBSET Targets :
          MountsSetup(entries, hostPaths)
    \/ \E mapping \in Mappings : MountsRun(mapping)
    \/ \E key \in Names, name \in {None} \cup {Some(x) : x \in Names},
          prefix \in {None} \cup {Some(x) : x \in Names} :
            ConfigSetup(key, name, prefix)
    \/ BuildUnit
    \/ \E stem \in Stems, ending \in Endings, dir \in {"absent", "partial", "full"} :
          DownloadSetup(stem, ending, dir)
    \/ \E fail \in {"none", "http", "unpack"} : DownloadRun(fail)
    \/ JoinEnter
    \/ \E i \in Closures : JoinCall(i)
    \/ \E i \in Closures, ok \in BOOLEAN : JoinStore(i, ok)
    \/ JoinReturn
    \/ JoinDropLock
    \/ JoinQuestionMarks
    \/ \E runtime \in FanRuntimes, libraries \in [LibraryNames -> Requests] :
          FanSetup(runtime, libraries)
    \/ \E found \in EnsureCases, releaseVersion \in {"v1", "v2"}, fail \in {"none", "unpack"} :
          FanRuntime(found, releaseVersion, fail)
    \/ \E tool \in ToolNames, exists \in BOOLEAN, fail \in {"none", "http"} :
          FanTool(tool, exists, fail)
    \/ \E name \in LibraryNames, found \in EnsureCases, single \in BOOLEAN,
          releaseVersion \in {"v1", "v2"}, fail \in {"none", "http", "unpack"} :
          FanLibrary(name, found, releaseVersion, single, fail)
    \/ \E file \in OverridesFiles, libraries \in LibrarySets : OverridesSetup(file, libraries)
    \/ OverridesRun
    \/ \E value \in UserDllPaths,
          libraries \in {<<>>, <<"DxvkNvapi">>, <<"NvidiaLibs">>,
                         <<"DxvkNvapi", "NvidiaLibs">>, <<"NvidiaLibs", "DxvkNvapi">>} :
          EnvSetup(value, libraries)
    \/ EnvRun
    \/ \E runtime \in Runtimes, binary, onPath, downloadOk \in BOOLEAN,
          prefix \in {"absent", "exists"} :
          RuntimeSetup(runtime, binary, onPath, downloadOk, prefix)
    \/ RuntimeEnsure
    \/ RuntimePrefix
    \/ \E listing \in Listings : FreshSetup(listing)
    \/ \E d \in Gaps, listing \in Listings : FreshLaunch(d, listing)

SpecFn == Init /\ [][NextFn]_vars

\* ------------------------------------------------------------------------
\* The launch after the state write: runner, prefix initialization, the
\* prefix lock, the preparation steps, the user command, the final wait
\* ------------------------------------------------------------------------

\* the preparation steps that launch runs between taking the prefix lock and
\* dropping it
PrepSteps == {"winetricks", "mounts", "libraries", "before", "wait"}

\* an order of the preparation steps with the before hooks ahead of the mounts
AfterHooksFirst(step) ==
    CASE step = "winetricks" -> "before"
      [] step = "before" -> "mounts"
      [] step = "mounts" -> "libraries"
      [] step = "libraries" -> "wait"
      [] step = "wait" -> "unlock"

\* the statement of launch that follows a preparation step
After(step) ==
    CASE step = "winetricks" -> "mounts"
      [] step = "mounts" -> "libraries"
      [] step = "libraries" -> "before"
      [] step = "before" -> "wait"
      [] step = "wait" -> "unlock"

\* the Error variant launch maps the failure of a step to
ErrorOf(step) ==
    CASE step = "runner" -> "Runner"
      [] step = "init" -> "Prefix"
      [] step = "lock" -> "Lock"
      [] step = "winetricks" -> "Tricks"
      [] step = "mounts" -> "Mounts"
      [] step = "libraries" -> "LibraryInstall"
      [] step = "before" -> "Before"
      [] step = "wait" -> "Wait"
      [] step = "expand" -> "Expand"
      [] step = "command" -> "Run"
      [] step = "finalwait" -> "Wait"

\* Runner::run: Command::status(). "ok": the child exited with status 0;
\* "nonzero": it exited with another status, which status() returns as Ok
\* and no caller looks at; "err": the child could not be spawned.
RunOutcomes == {"ok", "nonzero", "err"}

\* the outcomes of a step that runs no child process
FsOutcomes == {"ok", "err"}

\* an Err that is dropped instead of returned
FailedNever(out) == FALSE

\* the `?` after a statement of launch: an Err returns from launch
Failed(out) == out = "err"

\* launch returning right after the user command
SkipFinalWait == "return"

\* the statement of launch that follows the `if !unit.command.is_empty()` block
AfterCommand == "finalwait"

\* a lock that is kept when launch returns
ScopeExitKeeps(p) == prefixLock

\* the LockFile `lock` goes out of scope when launch returns: fslock unlocks
\* in Drop
ScopeExit(p) == IF prefixLock = p THEN 0 ELSE prefixLock

\* one statement `step(..)?` of launch with its outcome: Ok goes on to the
\* statement `next`, Err returns ErrorOf(step) and drops what is in scope
Statement(p, step, out, next) ==
    /\ pc[p] = step
    /\ faults + Count(out # "ok") <= MaxFaults
    /\ faults' = faults + Count(out # "ok")
    /\ log' = [log EXCEPT ![p] = Append(@, [step |-> step, out |-> out])]
    /\ IF Failed(out)
       THEN /\ Return(p, "failed")
            /\ err' = [err EXCEPT ![p] = ErrorOf(step)]
            /\ prefixLock' = ScopeExit(p)
       ELSE /\ pc' = [pc EXCEPT ![p] = next]
            /\ UNCHANGED <<unit, st, res, err, prefixLock>>
    /\ UNCHANGED <<tree, cache, bin, stateFile, clock, cacheLock, lastFan,
                   launches, advances>>
    /\ UNCHANGED <<fnVars, prefixVars>>

\* launch: Runner::new(..).map_err(Error::Runner)?
RunnerNew(p, out) ==
    /\ pc[p] = "written"
    /\ log' = [log EXCEPT ![p] = Append(@, [step |-> "runner", out |-> out])]
    /\ faults + Count(out # "ok") <= MaxFaults
    /\ faults' = faults + Count(out # "ok")
    /\ IF Failed(out)
       THEN /\ Return(p, "failed")
            /\ err' = [err EXCEPT ![p] = ErrorOf("runner")]
       ELSE /\ pc' = [pc EXCEPT ![p] = "prepare"]
            /\ UNCHANGED <<unit, st, res, err>>
    /\ UNCHANGED <<tree, cache, bin, stateFile, clock, cacheLock, lastFan,
                   launches, advances>>
    /\ UNCHANGED <<fnVars, prefixVars, prefixDir, userLinks, prefixLock, cmd>>

\* prepare_wine_prefix: `if wine_prefix.exists() { return Ok(()) }`
PrefixExists(p) ==
    /\ pc[p] = "prepare"
    /\ prefixDir = "exists"
    /\ pc' = [pc EXCEPT ![p] = "lock"]
    /\ UNCHANGED <<tree, cache, bin, stateFile, clock, cacheLock, unit, st, res,
                   lastFan, launches, advances, faults>>
    /\ UNCHANGED <<fnVars, prefixVars, runVars>>

\* prepare_wine_prefix: the prefix does not exist: create its parent and
\* start `wine __INIT_PREFIX`
InitStart(p) ==
    /\ pc[p] = "prepare"
    /\ prefixDir = "absent"
    /\ pc' = [pc EXCEPT ![p] = "init"]
    /\ UNCHANGED <<tree, cache, bin, stateFile, clock, cacheLock, unit, st, res,
                   lastFan, launches, advances, faults>>
    /\ UNCHANGED <<fnVars, prefixVars, runVars>>

\* the wine process of p creates the prefix directory while it initializes it
WineCreatesPrefix(p) ==
    /\ pc[p] = "init"
    /\ prefixDir = "absent"
    /\ prefixDir' = "exists"
    /\ userLinks' = TRUE
    /\ UNCHANGED cacheVars
    /\ UNCHANGED <<fnVars, prefixVars, prefixLock, log, err, cmd>>

\* prepare_wine_prefix: `wine __INIT_PREFIX` and `wineserver --wait` have
\* returned, the symlinks under drive_c/users are replaced by directories
InitEnd(p, out) ==
    /\ pc[p] = "init"
    /\ out # "err" => prefixDir = "exists"
    /\ Statement(p, "init", out, "lock")
    /\ userLinks' = IF Failed(out) THEN userLinks ELSE FALSE
    /\ UNCHANGED <<prefixDir, cmd>>

\* a lock that excludes nobody
CanLockPrefixShared(p) == TRUE

\* lock.lock_with_pid() blocks until <prefix>/.brie.lock is free
CanLockPrefix(p) == prefixLock = 0

\* launch: LockFile::open(prefix/.brie.lock), lock_with_pid
LockPrefix(p) ==
    /\ pc[p] = "lock"
    /\ CanLockPrefix(p)
    /\ prefixLock' = p
    /\ pc' = [pc EXCEPT ![p] = "winetricks"]
    /\ log' = [log EXCEPT ![p] = Append(@, [step |-> "lock", out |-> "ok"])]
    /\ UNCHANGED <<tree, cache, bin, stateFile, clock, cacheLock, unit, st, res,
                   lastFan, launches, advances, faults>>
    /\ UNCHANGED <<fnVars, prefixVars, prefixDir, userLinks, err, cmd>>

\* launch: LockFile::open or lock_with_pid fails: Error::Lock
LockPrefixFail(p) ==
    /\ Statement(p, "lock", "err", "lock")
    /\ UNCHANGED <<prefixDir, userLinks, cmd>>

\* launch: runner.winetricks(&unit.winetricks)?
RunWinetricks(p, out) ==
    /\ Statement(p, "winetricks", out, After("winetricks"))
    /\ UNCHANGED <<prefixDir, userLinks, cmd>>

\* launch: runner.mounts(&unit.mounts)?
RunMounts(p, out) ==
    /\ Statement(p, "mounts", out, After("mounts"))
    /\ UNCHANGED <<prefixDir, userLinks, cmd>>

\* launch: runner.install_libraries(&libraries)?
RunInstallLibraries(p, out) ==
    /\ Statement(p, "libraries", out, After("libraries"))
    /\ UNCHANGED <<prefixDir, userLinks, cmd>>

\* launch: runner.before(&unit.before)?
RunBefore(p, out) ==
    /\ Statement(p, "before", out, After("before"))
    /\ UNCHANGED <<prefixDir, userLinks, cmd>>

\* launch: runner.run("wineserver", &["--wait"]).map_err(Error::Wait)?
WaitBeforeCommand(p, out) ==
    /\ Statement(p, "wait", out, After("wait"))
    /\ UNCHANGED <<prefixDir, userLinks, cmd>>

\* launch: drop(lock)
DropPrefixLock(p) ==
    /\ pc[p] = "unlock"
    /\ prefixLock' = IF prefixLock = p THEN 0 ELSE prefixLock
    /\ pc' = [pc EXCEPT ![p] = "command"]
    /\ UNCHANGED <<tree, cache, bin, stateFile, clock, cacheLock, unit, st, res,
                   lastFan, launches, advances, faults>>
    /\ UNCHANGED <<fnVars, prefixVars, prefixDir, userLinks, log, err, cmd>>

\* the environment of the launcher process
ProcessEnv == [n \in {"HOME"} |-> "/home/u"]

\* the parts of a cd: text, and references to variables
Lit(text) == [var |-> FALSE, s |-> text]
Var(name) == [var |-> TRUE, s |-> name]

\* the cd of a Unit: Option<String>
CdInputs ==
    {None} \cup {Some(c) : c \in {<<Lit("/games")>>, <<Var("HOME"), Lit("/games")>>,
                                  <<Var("GAMES")>>, <<Var("HOME"), Var("GAMES")>>}}

\* an expansion that puts nothing for a variable that is not defined
fullOrEmpty(text) ==
    [ok |-> TRUE,
     dir |-> [i \in DOMAIN text |->
                 IF ~text[i].var THEN text[i].s
                 ELSE IF text[i].s \in DOMAIN ProcessEnv THEN ProcessEnv[text[i].s]
                 ELSE ""]]

\* shellexpand::full(cd): every reference replaced by the value of the
\* variable in the environment of the process; Err(LookupError) when a
\* referenced variable is not defined
full(text) ==
    IF \E i \in DOMAIN text : text[i].var /\ text[i].s \notin DOMAIN ProcessEnv
    THEN [ok |-> FALSE, dir |-> <<>>]
    ELSE [ok |-> TRUE,
          dir |-> [i \in DOMAIN text |->
                      IF text[i].var THEN ProcessEnv[text[i].s] ELSE text[i].s]]

\* runner.wine_prefix().join("drive_c")
DriveC == <<"<prefix>", "/drive_c">>

\* launch: `if !unit.command.is_empty()` is false: cd is not looked at
CommandEmpty(p, cd) ==
    /\ pc[p] = "command"
    /\ pc' = [pc EXCEPT ![p] = AfterCommand]
    /\ cmd' = [cmd EXCEPT ![p] = [set |-> TRUE, cd |-> cd, empty |-> TRUE, cwd |-> <<>>]]
    /\ UNCHANGED <<tree, cache, bin, stateFile, clock, cacheLock, unit, st, res,
                   lastFan, launches, advances, faults>>
    /\ UNCHANGED <<fnVars, prefixVars, prefixDir, userLinks, prefixLock, log, err>>

\* launch: the command is not empty: unit.cd is expanded (Error::Expand),
\* then the user command is spawned in that directory by command.status(),
\* or cannot be (Error::Run)
CommandSpawn(p, cd, out) ==
    /\ pc[p] = "command"
    /\ \E e \in {IF cd.some THEN full(cd.v) ELSE [ok |-> TRUE, dir |-> DriveC]} :
          IF ~e.ok
          THEN /\ out = "ok"
               /\ log' = [log EXCEPT ![p] = Append(@, [step |-> "expand", out |-> "err"])]
               /\ Return(p, "failed")
               /\ err' = [err EXCEPT ![p] = ErrorOf("expand")]
               /\ prefixLock' = ScopeExit(p)
               /\ cmd' = [cmd EXCEPT ![p] =
                             [set |-> TRUE, cd |-> cd, empty |-> FALSE, cwd |-> <<>>]]
               /\ UNCHANGED <<tree, cache, bin, stateFile, clock, cacheLock, lastFan,
                              launches, advances, faults>>
               /\ UNCHANGED <<fnVars, prefixVars>>
          ELSE /\ Statement(p, "command", out, "running")
               /\ cmd' = [cmd EXCEPT ![p] =
                             [set |-> TRUE, cd |-> cd, empty |-> FALSE,
                              cwd |-> IF out = "ok" THEN e.dir ELSE <<>>]]
    /\ UNCHANGED <<prefixDir, userLinks>>

\* launch: command.status() returns: the user command has exited
CommandExit(p, out) ==
    /\ pc[p] = "running"
    /\ faults + Count(out # "ok") <= MaxFaults
    /\ faults' = faults + Count(out # "ok")
    /\ log' = [log EXCEPT ![p] = Append(@, [step |-> "exit", out |-> out])]
    /\ pc' = [pc EXCEPT ![p] = AfterCommand]
    /\ UNCHANGED <<tree, cache, bin, stateFile, clock, cacheLock, unit, st, res,
                   lastFan, launches, advances>>
    /\ UNCHANGED <<fnVars, prefixVars, prefixDir, userLinks, prefixLock, err, cmd>>

\* launch: the final runner.run("wineserver", &["--wait"]).map_err(Error::Wait)?
FinalWait(p, out) ==
    /\ Statement(p, "finalwait", out, "return")
    /\ UNCHANGED <<prefixDir, userLinks, cmd>>

\* launch: Ok(())
ReturnOk(p) ==
    /\ pc[p] = "return"
    /\ Return(p, "done")
    /\ prefixLock' = ScopeExit(p)
    /\ UNCHANGED <<tree, cache, bin, stateFile, clock, cacheLock, lastFan,
                   launches, advances, faults>>
    /\ UNCHANGED <<fnVars, prefixVars, prefixDir, userLinks, log, err, cmd>>

NextRun ==
    \/ \E p \in Procs : Start(p, Latest)
    \/ \E p \in Procs : Lock(p)
    \/ \E p \in Procs : LockFail(p)
    \/ \E p \in Procs, wineOk \in BOOLEAN, wtFail \in ToolFaults \cup {"none"},
          cabFail \in CabFaults \cup {"none"}, metaFail \in BOOLEAN,
          fail \in DownloadFaults \cup {"none"} :
            FanOut(p, wineOk, wtFail, cabFail, metaFail, fail)
    \/ \E p \in Procs : FanOutError(p)
    \/ \E p \in Procs : WriteState(p)
    \/ \E p \in Procs, truncated \in BOOLEAN : WriteStateFail(p, truncated)
    \/ \E p \in Procs, out \in FsOutcomes : RunnerNew(p, out)
    \/ \E p \in Procs : PrefixExists(p)
    \/ \E p \in Procs : InitStart(p)
    \/ \E p \in Procs : WineCreatesPrefix(p)
    \/ \E p \in Procs, out \in RunOutcomes : InitEnd(p, out)
    \/ \E p \in Procs : LockPrefix(p)
    \/ \E p \in Procs : LockPrefixFail(p)
    \/ \E p \in Procs, out \in RunOutcomes : RunWinetricks(p, out)
    \/ \E p \in Procs, out \in FsOutcomes : RunMounts(p, out)
    \/ \E p \in Procs, out \in FsOutcomes : RunInstallLibraries(p, out)
    \/ \E p \in Procs, out \in RunOutcomes : RunBefore(p, out)
    \/ \E p \in Procs, out \in RunOutcomes : WaitBeforeCommand(p, out)
    \/ \E p \in Procs : DropPrefixLock(p)
    \/ \E p \in Procs, cd \in CdInputs : CommandEmpty(p, cd)
    \/ \E p \in Procs, cd \in CdInputs, out \in {"ok", "err"} : CommandSpawn(p, cd, out)
    \/ \E p \in Procs, out \in {"ok", "nonzero"} : CommandExit(p, out)
    \/ \E p \in Procs, out \in RunOutcomes : FinalWait(p, out)
    \/ \E p \in Procs : ReturnOk(p)

SpecRun == Init /\ [][NextRun]_vars

\* the steps of the launch of process p, once it has started
LaunchStep(p) ==
    \/ Lock(p)
    \/ LockFail(p)
    \/ \E wineOk \in BOOLEAN, wtFail \in ToolFaults \cup {"none"},
          cabFail \in CabFaults \cup {"none"}, metaFail \in BOOLEAN,
          fail \in DownloadFaults \cup {"none"} :
            FanOut(p, wineOk, wtFail, cabFail, metaFail, fail)
    \/ FanOutError(p)
    \/ WriteState(p)
    \/ \E truncated \in BOOLEAN : WriteStateFail(p, truncated)
    \/ \E out \in FsOutcomes : RunnerNew(p, out)
    \/ PrefixExists(p)
    \/ InitStart(p)
    \/ WineCreatesPrefix(p)
    \/ \E out \in RunOutcomes : InitEnd(p, out)
    \/ LockPrefix(p)
    \/ LockPrefixFail(p)
    \/ \E out \in RunOutcomes : RunWinetricks(p, out)
    \/ \E out \in FsOutcomes : RunMounts(p, out)
    \/ \E out \in FsOutcomes : RunInstallLibraries(p, out)
    \/ \E out \in RunOutcomes : RunBefore(p, out)
    \/ \E out \in RunOutcomes : WaitBeforeCommand(p, out)
    \/ DropPrefixLock(p)
    \/ \E cd \in CdInputs : CommandEmpty(p, cd)
    \/ \E cd \in CdInputs, out \in {"ok", "err"} : CommandSpawn(p, cd, out)
    \/ \E out \in {"ok", "nonzero"} : CommandExit(p, out)
    \/ \E out \in RunOutcomes : FinalWait(p, out)
    \/ ReturnOk(p)

\* ------------------------------------------------------------------------
\* Properties of the cache, the locks and the freshness state
\* ------------------------------------------------------------------------

\* process p is inside the fan-out region of launch
InFanOut(p) == pc[p] = "locked"

\* the step is the fan-out of process p returning to launch
FanOutStep(p) == pc[p] = "locked" /\ pc'[p] = "joined"

\* the step is the state write of process p
WriteStateStep(p) == pc[p] = "joined" /\ pc'[p] = "written"

\* C1: at most one process at a time is between acquiring and releasing
\* libraries/.brie.lock, the holder is the process inside the fan-out, and
\* every change of the cache (library directories, latest link, .bin tools)
\* is made by the process that holds the lock.
C1_FanOutSerialized ==
    /\ [](\A p, q \in Procs : InFanOut(p) /\ InFanOut(q) => p = q)
    /\ [](\A p \in Procs : InFanOut(p) => cacheLock = p)
    /\ [][(cache' # cache \/ bin' # bin)
            => \E p \in Procs : InFanOut(p) /\ cacheLock = p]_vars

\* a process is inside the fan-out while another one waits for the lock
C1_Witness ==
    \E p, q \in Procs :
        p # q /\ InFanOut(p) /\ cacheLock = p /\ pc[q] = "start"

\* C2: when the download path of ensure fails after the release directory
\* was created, that directory does not exist when ensure returns, and a
\* latest link that pointed to another version still points to it.
C2_FailedDownloadLeavesNoTrace ==
    [][\A p \in Procs :
          FanOutStep(p) /\ res'[p].created /\ ~res'[p].dlok
          => /\ cache'.dirs[res'[p].resolved] = "absent"
             /\ (cache.latest # NoVersion /\ cache.latest # res'[p].resolved
                   => cache'.latest = cache.latest)]_vars

\* C3: ensure never returns success with a path that resolves to a
\* directory a killed download left partially unpacked.
C3_NoPartialEntryReturned ==
    [][\A p \in Procs :
          FanOutStep(p) /\ res'[p].ok /\ Exists(cache', unit[p])
          => cache'.dirs[Resolve(cache', unit[p])] # "partial"]_vars

\* C4: when ensure returns success after resolving a release, the release
\* directory exists, and for Latest the latest link points to it; the
\* attempted update of an outdated Latest entry included.
C4_SuccessMeansInstalled ==
    [][\A p \in Procs :
          FanOutStep(p) /\ res'[p].ok /\ res'[p].resolved # NoVersion
          => /\ cache'.dirs[res'[p].resolved] = "full"
             /\ (unit[p].kind = "Latest" => cache'.latest = res'[p].resolved)]_vars

\* C5: the latest link is absent or points to an existing sibling directory.
C5_LatestNeverDangles ==
    cache.latest = NoVersion \/ cache.dirs[cache.latest] # "absent"

\* C6: a launch changes the persisted timestamp of the library only if it
\* queried the provider for the latest version and got an answer; a launch
\* of a Tag-pinned entry never sets or changes it.
C6_TimestampOnlyAfterCheck ==
    [][\A p \in Procs :
          WriteStateStep(p) /\ stateFile'.lib # stateFile.lib
          => /\ unit[p].kind = "Latest"
             /\ res[p].queried
             /\ res[p].resolved # NoVersion]_vars

\* C7: a Latest entry that exists and was checked within the freshness
\* window causes no HTTP request; a relaunch of the unit whose fan-out just
\* succeeded makes no request for the tools and none for a Tag entry.
C7_NoHttpWhenFresh ==
    [][\A p \in Procs :
          FanOutStep(p)
          => /\ (/\ unit[p].kind = "Latest"
                 /\ Exists(cache, unit[p])
                 /\ ~IsDue(unit[p], Elapsed(stateFile.lib, clock)))
                => ~res'[p].queried /\ ~res'[p].fetched
             /\ lastFan = unit[p]
                => /\ ~res'[p].toolHttp
                   /\ (unit[p].kind = "Tag"
                         => ~res'[p].queried /\ ~res'[p].fetched)]_vars

\* C8: when an existing Latest entry is due for a check and the provider
\* resolves to the version the latest link points to, ensure downloads
\* nothing, leaves the cache as it is and returns updated = true, and the
\* state write of that launch sets the timestamp to the current time.
C8_SameVersionRefreshesTimestamp ==
    [][\A p \in Procs :
          /\ (/\ FanOutStep(p)
               /\ unit[p].kind = "Latest"
               /\ Exists(cache, unit[p])
               /\ IsDue(unit[p], Elapsed(stateFile.lib, clock))
               /\ res'[p].queried
               /\ res'[p].resolved = cache.latest)
              => /\ res'[p].branch = "same"
                 /\ cache' = cache
                 /\ ~res'[p].fetched /\ ~res'[p].created
                 /\ res'[p].ok /\ res'[p].updated
          /\ (WriteStateStep(p) /\ res[p].branch = "same")
              => stateFile'.lib = clock]_vars

\* a launch found the entry due, the provider answered the linked version,
\* and the launch wrote the refreshed timestamp
C8_Witness ==
    \E p \in Procs :
        /\ pc[p] = "written"
        /\ res[p].branch = "same"
        /\ clock > FreshnessWindow
        /\ stateFile.lib = clock

\* C13: at most one launch at a time is inside the preparation phase of
\* the prefix, every process inside it holds <prefix>/.brie.lock, and a
\* launch that is about to spawn its user command, or whose user command
\* runs, does not hold the lock.
C13_PrepUnderPrefixLock ==
    /\ \A p \in Procs : pc[p] \in PrepSteps => prefixLock = p
    /\ \A p, q \in Procs :
          (pc[p] \in PrepSteps /\ pc[q] \in PrepSteps) => p = q
    /\ \A p \in Procs : pc[p] \in {"command", "running"} => prefixLock # p

\* a user command runs while another launch prepares the prefix under the lock
C13_Witness ==
    \E p, q \in Procs :
        /\ pc[p] = "running"
        /\ pc[q] \in PrepSteps
        /\ prefixLock = q

\* C14: prefix initialization is serialized by the prefix lock: no two
\* processes initialize the prefix at the same time, and no process is at
\* winetricks, mounts or the DLL installation while another one
\* initializes the prefix.
C14_InitUnderPrefixLock ==
    \A p \in Procs :
        pc[p] = "init"
        => \A q \in Procs \ {p} :
              pc[q] \notin {"init", "winetricks", "mounts", "libraries"}

\* the step names of a log
StepNames(lg) == [i \in DOMAIN lg |-> lg[i].step]

\* seq is a prefix of whole
IsPrefix(seq, whole) ==
    /\ Len(seq) <= Len(whole)
    /\ \A i \in DOMAIN seq : seq[i] = whole[i]

InOrder(step) == step \in PrepSteps \cup {"command"}

\* C15: the preparation steps a launch has run, and the spawn of its user
\* command, follow the order winetricks, mounts, DLL installation, before
\* hooks, wineserver --wait, user command; a launch is at a step only when
\* all the steps before it have returned.
C15_StepOrder ==
    \A p \in Procs :
        /\ IsPrefix(SelectSeq(StepNames(log[p]), InOrder),
                    <<"winetricks", "mounts", "libraries", "before", "wait", "command">>)
        /\ pc[p] \in PrepSteps
           => \E n \in 0..4 :
                 /\ Len(SelectSeq(StepNames(log[p]), InOrder)) = n
                 /\ pc[p] = <<"winetricks", "mounts", "libraries", "before", "wait">>[n + 1]
        /\ pc[p] = "running" => Len(SelectSeq(StepNames(log[p]), InOrder)) = 6

\* the user command of a launch runs after its five preparation steps
C15_Witness ==
    \E p \in Procs :
        /\ pc[p] = "running"
        /\ SelectSeq(StepNames(log[p]), InOrder)
             = <<"winetricks", "mounts", "libraries", "before", "wait", "command">>

\* C16: when launch has returned Ok, the last thing it ran is a wineserver
\* --wait that returned, run right after the exit of the user command or,
\* without a user command, right after the preparation phase.
C16_FinalWaitBeforeReturn ==
    \A p \in Procs :
        pc[p] = "done"
        => \E n \in DOMAIN log[p] :
              /\ n = Len(log[p]) /\ n >= 2
              /\ log[p][n].step = "finalwait" /\ log[p][n].out # "err"
              /\ IF \E i \in DOMAIN log[p] : log[p][i].step = "command"
                 THEN log[p][n - 1].step = "exit"
                 ELSE log[p][n - 1].step = "wait"

\* a launch with a user command has returned Ok
C16_Witness ==
    \E p \in Procs :
        /\ pc[p] = "done"
        /\ \E i \in DOMAIN log[p] : log[p][i].step = "exit"

\* C17: a process whose launch has returned, with Ok or with an Error,
\* holds neither libraries/.brie.lock nor <prefix>/.brie.lock.
C17_NoLockAfterReturn ==
    \A p \in Procs :
        pc[p] \in {"done", "failed"} => cacheLock # p /\ prefixLock # p

\* a launch failed inside the preparation phase, and the other launch has
\* taken the prefix lock since
C17_Witness ==
    \E p, q \in Procs :
        /\ pc[p] = "failed"
        /\ err[p] \in {"Tricks", "Mounts", "LibraryInstall", "Before", "Wait"}
        /\ \E i \in DOMAIN log[p] : log[p][i].step = "lock"
        /\ prefixLock = q

\* C18: a failed download inside ensure is never swallowed: when ensure
\* called download_library (to install, or to update an outdated Latest entry)
\* and the download failed, ensure returns an error.
C18_DownloadFailureSurfaces ==
    [][\A p \in Procs :
          (/\ FanOutStep(p)
           /\ res'[p].branch \in {"install", "update"}
           /\ ~res'[p].dlok)
          => ~res'[p].ok]_vars

\* C19: when an existing Latest entry is due and the provider call fails,
\* ensure returns success with updated = false and leaves the cache as it
\* is; the state write of that launch writes back the timestamp the launch
\* read, so the entry is still due afterwards.
C19_FailedCheckIsBestEffort ==
    [][\A p \in Procs :
          /\ (/\ FanOutStep(p)
               /\ unit[p].kind = "Latest"
               /\ Exists(cache, unit[p])
               /\ IsDue(unit[p], Elapsed(stateFile.lib, clock))
               /\ res'[p].queried
               /\ res'[p].resolved = NoVersion)
              => /\ res'[p].branch = "check_failed"
                 /\ res'[p].ok /\ ~res'[p].updated
                 /\ ~res'[p].created /\ ~res'[p].fetched
                 /\ cache' = cache
          /\ (WriteStateStep(p) /\ res[p].branch = "check_failed")
              => /\ stateFile'.lib = st[p].lib
                 /\ IsDue(unit[p], Elapsed(stateFile'.lib, clock))]_vars

\* a launch whose freshness check failed went on to write the state
C19_Witness ==
    \E p \in Procs :
        /\ pc[p] = "written"
        /\ res[p].branch = "check_failed"
        /\ cache.latest # NoVersion

\* C11: over the life of a prefix `winetricks -q <verb>` is executed at
\* most once for each verb, whatever the launches, the aborted winetricks
\* steps and the repetitions of a verb within one list.
C11_VerbAtMostOnce == \A v \in Verbs : executed[v] <= 1

\* C12: after an install_libraries for the libraries L returned Ok on the
\* prefix, the install_libraries of the next launch with the same L finds
\* every override of L recorded, edits no registry entry and leaves
\* .overrides as it is.
C12_OverridesIdempotent ==
    [][(/\ prefixPc = "libraries"
        /\ prefixPc' = "idle"
        /\ lastInstalled = prefixUnit.libraries)
       => /\ OverridesOf(prefixUnit.libraries) \subseteq OverridesAll(overridesFile)
          /\ regEdits' = {}
          /\ overridesFile' = overridesFile]_vars

\* C20: the first step of a launch that returns Err ends the launch: it is
\* the last step the launch ran, launch returned, and the Error is the one
\* of that step; a launch that returned Ok ran no step that returned Err;
\* after a fan-out with a failed task the launch returns the Error of a
\* failed task, writes no state and runs no later step.
C20_FirstFailureAborts ==
    /\ [](\A p \in Procs :
            /\ \A i \in DOMAIN log[p] :
                  log[p][i].out = "err"
                  => /\ i = Len(log[p])
                     /\ pc[p] = "failed"
                     /\ err[p] = ErrorOf(log[p][i].step)
            /\ pc[p] = "failed" => err[p] # "none"
            /\ pc[p] = "done" => err[p] = "none")
    /\ [][\A p \in Procs :
            (/\ pc[p] = "joined"
             /\ ~(res[p].wine /\ res[p].ok /\ res[p].winetricks /\ res[p].cabextract)
             /\ pc'[p] # pc[p])
            => /\ pc'[p] = "failed"
               /\ \/ err'[p] = "Runtime" /\ ~res[p].wine
                  \/ err'[p] = "LibraryDownload(library)" /\ ~res[p].ok
                  \/ err'[p] = "LibraryDownload(winetricks)" /\ ~res[p].winetricks
                  \/ err'[p] = "LibraryDownload(cabextract)" /\ ~res[p].cabextract
               /\ log'[p] = <<>>
               /\ stateFile' = stateFile]_vars

\* a launch has returned the Error of a before hook that could not be run
C20_Witness ==
    \E p \in Procs :
        /\ pc[p] = "failed"
        /\ err[p] = "Before"
        /\ log[p][Len(log[p])] = [step |-> "before", out |-> "err"]

\* C21: the state write is not fatal: whatever a launch whose fan-out
\* succeeded does next, it does not return an Error; it goes on to construct
\* the runner.
C21_StateWriteNonFatal ==
    [][\A p \in Procs :
          (/\ pc[p] = "joined"
           /\ res[p].wine /\ res[p].ok /\ res[p].winetricks /\ res[p].cabextract
           /\ pc'[p] # pc[p])
          => pc'[p] = "written"]_vars

\* C22: no successful state write of a launch takes the timestamp of the
\* library back: an update written by one launch is not overwritten by a
\* launch that read the state before it.
C22_NoLostStateUpdate ==
    [][\A p \in Procs :
          WriteStateStep(p) => stateFile'.lib >= stateFile.lib]_vars

\* C23: whatever the entries of dosdevices were and whether or not their
\* destinations exist, the mounts step returns Ok and leaves every drive of
\* its mapping a symlink to the drive's target.
C23_MountsEnsuresLinks ==
    mntOk # "none"
    => /\ mntOk = "ok"
       /\ \A d \in DOMAIN mntMap : dos[d] = mntMap[d]

\* C24: a provider call that resolves Tag(t) answers a release whose
\* version is t.
C24_TagResolvesToTag ==
    [][\A p \in Procs :
          (/\ FanOutStep(p)
           /\ unit[p].kind = "Tag"
           /\ res'[p].queried
           /\ res'[p].resolved # NoVersion)
          => res'[p].resolved = unit[p].tag]_vars

\* C25: the prefix of the Unit handed to launch holds none of the
\* characters / \ : * ? " < > |, whether it comes from the prefix field, the
\* name or the key of the unit.
C25_PrefixSanitized ==
    mode = "unit" => \A i \in DOMAIN unitPrefix : unitPrefix[i] \notin Illegal

\* C26 as stated: a launch of a Unit whose cd references a variable that
\* is not defined has returned the Expand error; a user command runs in
\* the expanded cd, or in <prefix>/drive_c when the Unit has no cd.
C26_CdExpansion ==
    \A p \in Procs :
        cmd[p].set
        => /\ (cmd[p].cd.some /\ ~full(cmd[p].cd.v).ok)
              => pc[p] = "failed" /\ err[p] = "Expand"
           /\ pc[p] = "running"
              => cmd[p].cwd = IF cmd[p].cd.some THEN full(cmd[p].cd.v).dir ELSE DriveC

\* C26 amended: a launch of a Unit with a command, come to its command,
\* whose cd references a variable that is not defined has returned the
\* Expand error without spawning the command; a user command runs in the
\* expanded cd, or in <prefix>/drive_c when the Unit has no cd.
C26_CdExpansionOfCommand ==
    \A p \in Procs :
        (cmd[p].set /\ ~cmd[p].empty)
        => /\ \A i \in DOMAIN cmd[p].cd.v :
                 (cmd[p].cd.v[i].var /\ cmd[p].cd.v[i].s \notin DOMAIN ProcessEnv)
                 => /\ pc[p] = "failed" /\ err[p] = "Expand"
                    /\ \A j \in DOMAIN log[p] : log[p][j].step # "command"
           /\ pc[p] = "running"
              => /\ cmd[p].cd.some
                    => /\ Len(cmd[p].cwd) = Len(cmd[p].cd.v)
                       /\ \A i \in DOMAIN cmd[p].cd.v :
                             cmd[p].cwd[i] = IF cmd[p].cd.v[i].var
                                             THEN ProcessEnv[cmd[p].cd.v[i].s]
                                             ELSE cmd[p].cd.v[i].s
                 /\ ~cmd[p].cd.some => cmd[p].cwd = DriveC

\* a launch returned Expand for a cd with an undefined variable while the
\* command of another launch runs in its expanded cd
C26_Witness ==
    \E p, q \in Procs :
        /\ pc[p] = "failed" /\ err[p] = "Expand"
        /\ cmd[p].cd = Some(<<Var("HOME"), Var("GAMES")>>)
        /\ pc[q] = "running"
        /\ cmd[q].cd = Some(<<Var("HOME"), Lit("/games")>>)
        /\ cmd[q].cwd = <<"/home/u", "/games">>

C28_JoinCompletes ==
    /\ mode \in {"join", "joined"} => \A i \in Closures : jcalls[i] <= 1
    /\ mode = "joined"
       => /\ ~jret.panicked
          /\ \A i \in Closures :
                /\ jcalls[i] = 1
                /\ jpc[i] = "done"
                /\ jret.tuple[i] = jr[i].v
                /\ jret.tuple[i].by = i
    /\ (mode \in {"join", "joined"} /\ ~jlock) => \A i \in Closures : jpc[i] = "done"

\* join! has come back with an Err in position 3 and Ok elsewhere, and the
\* lock has been released
C28_Witness ==
    /\ mode = "joined"
    /\ ~jlock
    /\ \A i \in Closures : jret.tuple[i].ok <=> i # 3

\* the directory a path lies at or under
Under(path, dir) == Len(path) >= Len(dir) /\ SubSeq(path, 1, Len(dir)) = dir

\* the Downloadable::name of a task of the fan-out
TaskDir(t) ==
    IF t = "runtime" THEN <<"libraries", fanUnit.runtime.name>>
    ELSE IF t \in ToolNames THEN <<"libraries", ".bin">>
    ELSE <<"libraries", t>>

\* C29 as stated: every library (and the runtime) writes only under one
\* libraries/<name>/<version> directory of its own, and no two tasks of one
\* launch write the same path.
C29_DisjointWrites ==
    mode = "fan"
    => /\ \A t \in DOMAIN written \ ToolNames :
            \E v \in {"v1", "v2", "latest"} :
                \A path \in written[t] : Under(path, TaskDir(t) \o <<v>>)
       /\ \A t, u \in DOMAIN written : t # u => written[t] \cap written[u] = {}

\* C29, amended: every library (and the runtime) writes only at or under its
\* own libraries/<name>, the tools only at or under libraries/.bin, and the
\* only path two tasks of one launch may both write is libraries/.bin itself.
C29_DisjointLibraryDirs ==
    mode = "fan"
    => /\ \A t \in DOMAIN written : \A path \in written[t] : Under(path, TaskDir(t))
       /\ \A t, u \in DOMAIN written :
            t # u => written[t] \cap written[u] \subseteq {<<"libraries", ".bin">>}

\* the runtime and both libraries were downloaded as latest, both tools
\* were fetched
C29_Witness ==
    /\ mode = "fan"
    /\ DOMAIN written = FanTasks
    /\ \A t \in FanTasks \ ToolNames : TaskDir(t) \o <<"latest">> \in written[t]
    /\ \A t \in ToolNames : TaskDir(t) \o <<t>> \in written[t]

\* C30: an override found in .overrides, as "<ARCH> <stem>" or as "<stem>"
\* alone, is recognised by the next install_libraries: it is not recorded
\* again and no registry edit is made for it.
C30_ReaderAcceptsBothFormats ==
    mode = "overridden"
    => \A o \in OverridesOf(ovIn.libraries) :
          (LineForms(o) \cap Range(lines(ovIn.file)) # {})
          => /\ o \notin ovOut.edits
             /\ o.dll \notin ovOut.editsOfLines

\* C31: one run of install_libraries opens .overrides for writing at most
\* once, only when the dlls of all libraries have been copied, and not at all
\* when no new override was recorded; a run in which a copy fails leaves
\* .overrides as it was.
C31_OverridesWrittenOnce ==
    [][(prefixPc = "libraries" /\ prefixPc' = "idle")
       => /\ overridesOpens' <= 1
          /\ overridesOpens' = 1
             => /\ lastInstalled' = prefixUnit.libraries
                /\ regEdits' # {}
          /\ regEdits' = {} => overridesOpens' = 0
          /\ overridesOpens' = 0 => overridesFile' = overridesFile
          /\ lastInstalled' = NoLibraries => overridesFile' = overridesFile]_vars

\* a run has recorded new overrides and written them, and a later run in
\* which a copy failed has opened nothing
C31_Witness ==
    /\ prefixPc = "idle"
    /\ runs >= 2
    /\ overridesFile # <<>>
    /\ lastInstalled = NoLibraries
    /\ overridesOpens = 0

\* C32: once prepare_wine_prefix has returned success, and for as long as
\* the preparation steps run, no entry of <prefix>/drive_c/users/*/* is a
\* symlink (stated for the moments at which no other launch is in the middle
\* of initializing the prefix, so that a prefix left behind is the only way
\* to find one).
C32_NoUserLinksAfterPrepare ==
    \A p \in Procs :
        (pc[p] \in {"lock"} \cup PrepSteps /\ \A q \in Procs : pc[q] # "init")
        => ~userLinks

\* the Error launch gives for the failure of a closure of the fan-out
ClosureError(i) ==
    CASE i = 1 -> "Runtime"
      [] i = 2 -> "LibraryDownload(winetricks)"
      [] i = 3 -> "LibraryDownload(cabextract)"
      [] i = 4 -> "LibraryDownload(library)"

\* the closures that returned Err, in the order in which they returned
FailedInTime == SelectSeq(jdone, LAMBDA i : ~jr[i].v.ok)

\* C33 as stated: when tasks of the fan-out fail, all four run to completion
\* and launch returns the error of the task that failed first.
C33_FirstFailedInTime ==
    (mode = "unwrapped" /\ FailedInTime # <<>>)
    => /\ \A i \in Closures : jpc[i] = "done"
       /\ jerr = ClosureError(FailedInTime[1])

\* C33, amended: all four run to completion and launch returns the error of
\* the first failed task in the order runtime, libraries, winetricks,
\* cabextract, whichever of them failed first in time.
C33_FirstFailedInOrder ==
    (mode = "unwrapped" /\ FailedInTime # <<>>)
    => /\ \A i \in Closures : jpc[i] = "done"
       /\ \E k \in 1..4 :
             LET order == <<1, 4, 2, 3>>
             IN  /\ ~jr[order[k]].v.ok
                 /\ \A j \in 1..(k - 1) : jr[order[j]].v.ok
                 /\ jerr = ClosureError(order[k])

\* winetricks failed first, the libraries failed later, and launch returned
\* the error of the libraries
C33_Witness ==
    /\ mode = "unwrapped"
    /\ FailedInTime = <<2, 4>>
    /\ jerr = "LibraryDownload(library)"

\* the first colon-separated component of a text
RECURSIVE FirstComponent(_)
FirstComponent(text) ==
    IF text = <<>> \/ Head(text) = ":" THEN <<>>
    ELSE <<Head(text)>> \o FirstComponent(Tail(text))

\* C34: with NvidiaLibs among the libraries the first component of the
\* Runner's WINEDLLPATH is <libdir>/lib64/wine, ahead of the value of the
\* Unit's env; without NvidiaLibs WINEDLLPATH is as the Unit gave it.
C34_DllPathPrepended ==
    mode = "runner"
    => IF "NvidiaLibs" \in Range(envIn.libraries)
       THEN envOut.some /\ FirstComponent(envOut.v) = Path64
       ELSE envOut = envIn.value

\* C35: with a GeProton or Tkg runtime whose unpacked directory holds no
\* wine binary, launch fails with a Runtime error before the prefix
\* initialization, the prefix lock or winetricks is attempted.
C35_MissingBinaryIsRuntimeError ==
    (mode = "returned" /\ rtIn.runtime \in {"GeProton", "Tkg"} /\ rtIn.downloadOk
     /\ ~rtIn.binary)
    => /\ rtOut.err = "Runtime"
       /\ rtOut.steps = <<"ensure">>

\* C36: no process holds the cache lock and the prefix lock at the same
\* time, and no wait for a lock is a deadlock: whenever a process waits for
\* a lock that is taken, the holder is another process, inside the phase that
\* lock protects, waiting for no lock itself and able to take its next step.
C36_NoNestedLocksNoDeadlock ==
    \A p \in Procs :
        /\ ~(cacheLock = p /\ prefixLock = p)
        /\ pc[p] = "start"
           => \/ cacheLock = 0
              \/ /\ cacheLock # p
                 /\ pc[cacheLock] = "locked"
                 /\ ENABLED LaunchStep(cacheLock)
        /\ pc[p] = "lock"
           => \/ prefixLock = 0
              \/ /\ prefixLock # p
                 /\ pc[prefixLock] \in PrepSteps \cup {"unlock"}
                 /\ ENABLED LaunchStep(prefixLock)

\* one process waits for the prefix lock while the other holds it, and the
\* cache lock is free
C36_Witness ==
    /\ pc[1] = "lock"
    /\ prefixLock = 2
    /\ cacheLock = 0

\* C39: a tool file under libraries/.bin/ that exists is completely fetched
\* (a failed fetch leaves no file), and a launch whose ensure step for a tool
\* returned success finds the tool's file in place.
C39_ToolsWholeOrAbsent ==
    /\ bin.winetricks # "partial"
    /\ bin.cabextract # "partial"
    /\ \A p \in Procs :
          pc[p] = "joined"
          => /\ res[p].winetricks => bin.winetricks # "absent"
             /\ res[p].cabextract => bin.cabextract # "absent"

\* C38: for a cached Latest entry and a provider that answers, a launch that
\* comes more than 86,400 s after the last launch that queried the provider
\* queries the provider, whatever launches came in between.
C38_CheckNotPostponed ==
    (mode = "fresh" /\ fresh.n > 0 /\ fresh.gap > FreshnessWindow) => fresh.queried

\* C37: while a launch that asked for Latest is past the release of the
\* cache lock and has not yet returned, libraries/<name>/latest keeps
\* pointing to the same directory, and that directory stays in place.
C37_LatestStableWhileUsed ==
    [][\A p \in Procs :
          (pc[p] = "written" /\ unit[p].kind = "Latest")
          => /\ cache'.latest = cache.latest
             /\ cache'.dirs[cache.latest] = cache.dirs[cache.latest]]_vars

\* C9: .overrides is append-only: every entry readable from it before a
\* step of a launch is readable from it after the step, hence after every
\* later launch.
C9_OverridesAppendOnly ==
    [][OverridesAll(overridesFile) \subseteq OverridesAll(overridesFile')]_vars

\* C10: .winetricks is append-only: every verb line of the file stays in it,
\* and the file holds every verb requested by a launch whose winetricks step
\* returned success.
C10_WinetricksAppendOnly ==
    /\ [][Range(lines(winetricksFile)) \subseteq Range(lines(winetricksFile'))]_vars
    /\ [](requested \subseteq Range(lines(winetricksFile)))

====
